---------------------------- MODULE Spec2Model ----------------------------
(***************************************************************************)
(* A model of the reshaping scripts of the nz-partner-hackathon repository *)
(* (src/scripts/*.py).  The scripts are independent batch programs: each   *)
(* has its own variables and its own specification below; a script that is *)
(* not running keeps its variables at their idle value.                    *)
(*                                                                         *)
(* Conventions.  Text is a sequence of one-character strings, so that      *)
(* str.lower(), str.strip() and the `in` substring test are computed and   *)
(* not assumed.  A spreadsheet or CSV cell is a record with a "kind"       *)
(* field.  Numbers are integers; a rounded quotient is kept as a scaled    *)
(* integer (hundredths for round(2), ten-thousandths for round(4)).        *)
(***************************************************************************)
EXTENDS Integers, Sequences, FiniteSets, TLC

VARIABLES
    script,              \* the script this run executes
    pc,                  \* where that script is: "start", ..., "done"
    incident,            \* maritime: the CSV row being categorised
    incident_severity,   \* maritime: processed_df['incident_severity'] of that row
    event,               \* eventfinda: the RSS item (title, description_text)
    event_category,      \* eventfinda: event['category'] of that item
    tourism_csv,         \* tourism: the CSV read by process_guest_nights / process_occupancy_rates
    regions,             \* tourism: regions returned by extract_region_columns
    metrics,             \* tourism: metrics returned by extract_region_columns
    processed_data,      \* tourism: the long-format records
    result_df,           \* tourism: the returned (pivoted) table
    niwa_zip,            \* NIWA: the station zip file read
    monthly_df,          \* NIWA: the concatenated monthly frame
    monthly_pivot,       \* NIWA: the pivoted monthly table
    niwa_error,          \* NIWA: the exception raised, or "none"
    fuel_df,             \* fuel type: the raw sheet, read without header
    header_row_idx,      \* fuel type: the header row found (from 0), or NoneIdx
    fuel_quarters,       \* fuel type: the quarters of the header row
    fuel_data_rows,      \* fuel type: the rows naming a fuel
    fuel_records,        \* fuel type: the long-format records
    df_final,            \* fuel type: the yearly frame written
    fuel_error,          \* fuel type: the exception raised, or "none"
    quarterly_sheet,     \* quarterly: the cells read from the sheet
    df_quarterly,        \* quarterly: the frame of quarterly records
    quarterly_out,       \* quarterly: the frame written
    quarterly_error,     \* quarterly: the exception raised, or "none"
    fixed_df,            \* fuel fixed: the rows of the sheet below the skipped ones
    fixed_final,         \* fuel fixed: the frame written
    tide_index,          \* tide fetch: the loop position, << city index, year index >>
    tide_requests,       \* tide fetch: the pairs requested, in order
    tide_saved,          \* tide fetch: the pairs whose file has been written in full
    downloaded,          \* tide fetch: the counter of downloads
    failed,              \* tide fetch: the counter of failures
    tide_sleeps,         \* tide fetch: the number of 0.5 s pauses taken
    tide_file,           \* tide processing: the prediction file read, its port and its data lines
    tide_line_num,       \* tide processing: the number of data lines parsed so far
    tide_data,           \* tide processing: the records parsed so far
    df_tides,            \* tide processing: the rows written to tide_predictions_combined.csv
    price_cell,          \* airfares: a cell of a price column as read from the CSV
    price_coerced,       \* airfares: the cell after the numeric coercion
    price_recoerced,     \* airfares: the coerced cell after the coercion is applied again
    niwa_data_dir,       \* NIWA runs: the station zips in data/
    niwa_output_dir,     \* NIWA runs: the files of processed_data/, each with its rows
    disk,                \* all scripts: the script that last wrote each output path
    overwritten,         \* all scripts: the paths a script wrote over the output of another script
    waipuna_sources,     \* waipuna main: the condition of the input of each source
    waipuna_written,     \* waipuna main: the output files written so far
    all_outputs,         \* waipuna main: the list of outputs main collects
    tourism_inputs,      \* tourism main: what happens to each of the five input files
    file_index,          \* tourism main: the number of entries of files_to_process handled
    processed_files,     \* tourism main: the list of output paths of the saved files
    total_records,       \* tourism main: the counter of saved records
    tourism_saved,       \* tourism main: the output files on disk
    main_result,         \* tourism main: the value main returns
    event_feed,          \* eventfinda main: the feed, what fetching it and writing the CSV do
    events_df,           \* eventfinda main: the frame of events, its columns and its rows
    event_exit,          \* eventfinda main: the value main returns
    fuel_sheet,          \* the fuel sheet process_and_load_electricity reads
    fuel_table,          \* the rows of electricity_generation_by_fuel_final.csv
    fuel_table_error,    \* the exception that ended the function, or none
    date_str,            \* the date text of an event, as the dates it mentions and its wording
    event_dates          \* what parse_event_dates returned

maritimeVars == << incident, incident_severity >>

eventVars == << event, event_category >>

tourismVars == << tourism_csv, regions, metrics, processed_data, result_df >>

niwaVars == << niwa_zip, monthly_df, monthly_pivot, niwa_error >>

fuelTypeVars == << fuel_df, header_row_idx, fuel_quarters, fuel_data_rows, fuel_records,
                   df_final, fuel_error >>

quarterlyVars == << quarterly_sheet, df_quarterly, quarterly_out, quarterly_error >>

fuelFixedVars == << fixed_df, fixed_final >>

tideFetchVars ==
    << tide_index, tide_requests, tide_saved,
       downloaded, failed, tide_sleeps >>

tideProcVars == << tide_file, tide_line_num, tide_data, df_tides >>

airfareVars == << price_cell, price_coerced, price_recoerced >>

niwaRunVars == << niwa_data_dir, niwa_output_dir >>

diskVars == << disk, overwritten >>

waipunaVars == << waipuna_sources, waipuna_written, all_outputs >>

tourismMainVars ==
    << tourism_inputs, file_index, processed_files,
       total_records, tourism_saved, main_result >>

eventMainVars == << event_feed, events_df, event_exit >>

fuelTableVars == << fuel_sheet, fuel_table, fuel_table_error >>

eventDateVars == << date_str, event_dates >>

vars == << script, pc, maritimeVars, eventVars, tourismVars, niwaVars, fuelTypeVars,
           quarterlyVars, fuelFixedVars, tideFetchVars, tideProcVars, airfareVars,
           niwaRunVars, diskVars, waipunaVars, tourismMainVars, eventMainVars,
           fuelTableVars, eventDateVars >>

\* the value of a variable its script has not set
Unset == "unset"

IdleMaritime == incident = Unset /\ incident_severity = Unset

IdleEvents == event = Unset /\ event_category = Unset

IdleTourism ==
    /\ tourism_csv = Unset /\ regions = Unset /\ metrics = Unset
    /\ processed_data = Unset /\ result_df = Unset

IdleNiwa ==
    /\ niwa_zip = Unset /\ monthly_df = Unset /\ monthly_pivot = Unset
    /\ niwa_error = Unset

IdleFuelType ==
    /\ fuel_df = Unset /\ header_row_idx = Unset /\ fuel_quarters = Unset
    /\ fuel_data_rows = Unset /\ fuel_records = Unset /\ df_final = Unset
    /\ fuel_error = Unset

IdleQuarterly ==
    /\ quarterly_sheet = Unset /\ df_quarterly = Unset /\ quarterly_out = Unset
    /\ quarterly_error = Unset

IdleFuelFixed == fixed_df = Unset /\ fixed_final = Unset

IdleTideFetch ==
    /\ tide_index = Unset /\ tide_requests = Unset /\ tide_saved = Unset
    /\ downloaded = Unset /\ failed = Unset /\ tide_sleeps = Unset

IdleTideProc ==
    /\ tide_file = Unset /\ tide_line_num = Unset /\ tide_data = Unset
    /\ df_tides = Unset

IdleAirfares ==
    /\ price_cell = Unset /\ price_coerced = Unset /\ price_recoerced = Unset

IdleNiwaRuns ==
    /\ niwa_data_dir = Unset /\ niwa_output_dir = Unset

IdleDisk ==
    /\ disk = Unset /\ overwritten = Unset

IdleWaipuna ==
    /\ waipuna_sources = Unset /\ waipuna_written = Unset /\ all_outputs = Unset

IdleTourismMain ==
    /\ tourism_inputs = Unset /\ file_index = Unset /\ processed_files = Unset
    /\ total_records = Unset /\ tourism_saved = Unset /\ main_result = Unset

IdleEventMain ==
    /\ event_feed = Unset /\ events_df = Unset /\ event_exit = Unset

IdleFuelTables ==
    /\ fuel_sheet = Unset /\ fuel_table = Unset /\ fuel_table_error = Unset

IdleEventDates ==
    /\ date_str = Unset /\ event_dates = Unset


(***************************************************************************)
(* Text                                                                    *)
(***************************************************************************)
UpperChars ==
    <<"A","B","C","D","E","F","G","H","I","J","K","L","M",
      "N","O","P","Q","R","S","T","U","V","W","X","Y","Z">>

LowerChars ==
    <<"a","b","c","d","e","f","g","h","i","j","k","l","m",
      "n","o","p","q","r","s","t","u","v","w","x","y","z">>

\* str.lower() on one character
LowerChar(c) ==
    IF \E i \in 1..Len(UpperChars) : UpperChars[i] = c
    THEN LowerChars[CHOOSE i \in 1..Len(UpperChars) : UpperChars[i] = c]
    ELSE c

\* str.lower()
Lower(s) == [i \in 1..Len(s) |-> LowerChar(s[i])]

\* Python's  kw in s  on strings
Contains(s, kw) ==
    \E i \in 1..(Len(s) - Len(kw) + 1) : SubSeq(s, i, i + Len(kw) - 1) = kw

\* any(word in s for word in words)
AnyIn(words, s) == \E k \in 1..Len(words) : Contains(s, words[k])

\* a missing cell (NaN / None) and a text cell
NaN == [kind |-> "nan"]

Str(s) == [kind |-> "str", s |-> s]

Num(v) == [kind |-> "num", v |-> v]

\* str(value): the text of a cell; NaN prints as 'nan'
PyStr(cell) ==
    IF cell.kind = "nan" THEN <<"n","a","n">>
    ELSE IF cell.kind = "str" THEN cell.s
    ELSE <<"#">>


(***************************************************************************)
(* process_maritime_incidents.py: incident severity                        *)
(***************************************************************************)
CriticalWhat == <<<<"f","a","t","a","l">>, <<"d","e","a","t","h">>, <<"f","o","u","n","d","e","r","e","d">>, <<"s","i","n","k","i","n","g">>>>

CriticalDesc == <<<<"f","a","t","a","l">>, <<"d","e","a","t","h">>, <<"f","o","u","n","d","e","r","e","d">>>>

MajorWhatA == <<<<"c","o","l","l","i","s","i","o","n">>, <<"g","r","o","u","n","d","i","n","g">>, <<"f","i","r","e">>, <<"e","x","p","l","o","s","i","o","n">>>>

MajorWhatB == <<<<"c","a","p","s","i","z","e">>, <<"f","l","o","o","d","i","n","g">>, <<"s","t","r","u","c","t","u","r","a","l">>>>

ModerateWhatA == <<<<"c","o","n","t","a","c","t">>, <<"n","e","a","r"," ","m","i","s","s">>, <<"m","e","c","h","a","n","i","c","a","l">>>>

ModerateWhatB == <<<<"p","r","o","p","u","l","s","i","o","n">>, <<"e","q","u","i","p","m","e","n","t">>>>

\* if injured_count and injured_count > 0  (None and NaN are never > 0)
InjuredPositive(injured_count) ==
    injured_count.kind = "num" /\ injured_count.v # 0 /\ injured_count.v > 0

\* the same tests with the injury count tested before the critical keywords
categorize_incident_severity_injury_first(what_happened, injured_count, description) ==
    LET what == Lower(PyStr(what_happened))
        desc == Lower(PyStr(description))
    IN  IF InjuredPositive(injured_count) THEN "Major"
        ELSE IF AnyIn(CriticalWhat, what) THEN "Critical"
        ELSE IF AnyIn(CriticalDesc, desc) THEN "Critical"
        ELSE IF AnyIn(MajorWhatA, what) THEN "Major"
        ELSE IF AnyIn(MajorWhatB, what) THEN "Major"
        ELSE IF AnyIn(ModerateWhatA, what) THEN "Moderate"
        ELSE IF AnyIn(ModerateWhatB, what) THEN "Moderate"
        ELSE "Minor"

categorize_incident_severity(what_happened, injured_count, description) ==
    LET what == Lower(PyStr(what_happened))
        desc == Lower(PyStr(description))
    IN  IF AnyIn(CriticalWhat, what) THEN "Critical"
        ELSE IF AnyIn(CriticalDesc, desc) THEN "Critical"
        ELSE IF InjuredPositive(injured_count) THEN "Major"
        ELSE IF AnyIn(MajorWhatA, what) THEN "Major"
        ELSE IF AnyIn(MajorWhatB, what) THEN "Major"
        ELSE IF AnyIn(ModerateWhatA, what) THEN "Moderate"
        ELSE IF AnyIn(ModerateWhatB, what) THEN "Moderate"
        ELSE "Minor"

\* 'What happened' cells of the incidents CSV
WhatHappenedCells ==
    {NaN,
     Str(<<"V","e","s","s","e","l"," ","f","o","u","n","d","e","r","e","d">>),
     Str(<<"F","A","T","A","L"," ","a","c","c","i","d","e","n","t">>),
     Str(<<"S","i","n","k","i","n","g">>),
     Str(<<"D","e","a","t","h"," ","o","n"," ","b","o","a","r","d">>),
     Str(<<"C","o","l","l","i","s","i","o","n">>),
     Str(<<"F","i","r","e">>),
     Str(<<"C","a","p","s","i","z","e">>),
     Str(<<"C","o","n","t","a","c","t"," ","w","i","t","h"," ","w","h","a","r","f">>),
     Str(<<"E","q","u","i","p","m","e","n","t"," ","f","a","i","l","u","r","e">>),
     Str(<<"P","e","r","s","o","n"," ","o","v","e","r","b","o","a","r","d">>)}

\* 'Brief Description' cells of the incidents CSV
DescriptionCells ==
    {NaN,
     Str(<<"C","r","e","w"," ","f","a","t","a","l","i","t","y"," ","r","e","p","o","r","t","e","d">>),
     Str(<<"T","h","e"," ","v","e","s","s","e","l"," ","w","a","s"," ","s","i","n","k","i","n","g">>),
     Str(<<"E","n","g","i","n","e"," ","f","i","r","e">>),
     Str(<<"M","i","n","o","r"," ","d","a","m","a","g","e">>)}

\* injured_persons after clean_numeric_field: a count or missing
InjuredCells == {NaN, Num(0), Num(2)}

InitMaritime ==
    /\ script = "process_maritime_incidents"
    /\ pc = "start"
    /\ IdleEvents /\ IdleTourism /\ IdleNiwa
    /\ IdleFuelType /\ IdleQuarterly /\ IdleFuelFixed /\ IdleTideFetch /\ IdleTideProc
    /\ IdleAirfares /\ IdleNiwaRuns /\ IdleDisk /\ IdleWaipuna /\ IdleTourismMain
    /\ IdleEventMain /\ IdleFuelTables /\ IdleEventDates
    /\ incident \in [what : WhatHappenedCells, injured : InjuredCells,
                      desc : DescriptionCells]
    /\ incident_severity = Unset

\* processed_df.apply(lambda row: categorize_incident_severity(...), axis=1)
CategorizeIncident ==
    /\ script = "process_maritime_incidents"
    /\ pc = "start"
    /\ pc' = "done"
    /\ incident_severity' =
          categorize_incident_severity(incident.what, incident.injured, incident.desc)
    /\ UNCHANGED << script, incident,
                    eventVars, tourismVars, niwaVars,
                    fuelTypeVars, quarterlyVars, fuelFixedVars, tideFetchVars,
                    tideProcVars, airfareVars, niwaRunVars, diskVars, waipunaVars,
                    tourismMainVars, eventMainVars, fuelTableVars, eventDateVars >>


\* the keywords claim C8 names
C8Keywords == {<<"f","a","t","a","l">>, <<"d","e","a","t","h">>, <<"f","o","u","n","d","e","r","e","d">>, <<"s","i","n","k","i","n","g">>}

\* C8: a record whose what_happened text contains fatal, death, foundered or
\* sinking (case-insensitive) is categorised 'Critical', whatever the
\* injured-persons count and the description are.
C8_CriticalKeywordWins ==
    (pc = "done" /\ \E kw \in C8Keywords : Contains(Lower(PyStr(incident.what)), kw))
        => incident_severity = "Critical"

\* what_happened = 'Vessel foundered' with injured_persons = 0 has been categorised
C8_Witness ==
    /\ pc = "done"
    /\ incident.what = Str(<<"V","e","s","s","e","l"," ","f","o","u","n","d","e","r","e","d">>)
    /\ incident.injured = Num(0)
    /\ incident.desc = Str(<<"M","i","n","o","r"," ","d","a","m","a","g","e">>)
    /\ incident_severity = "Critical"

(***************************************************************************)
(* fetch_eventfinda_data.py: event category                                *)
(***************************************************************************)
\* the categories dict, in insertion order: (name, keywords)
categories ==
    <<
     [name |-> "Music & Performance",
      keywords |-> <<<<"j","a","z","z">>, <<"c","o","n","c","e","r","t">>, <<"m","u","s","i","c">>, <<"p","e","r","f","o","r","m","a","n","c","e">>, <<"o","r","c","h","e","s","t","r","a">>, <<"b","a","n","d">>, <<"s","i","n","g","i","n","g">>>>],
     [name |-> "Arts & Culture",
      keywords |-> <<<<"a","r","t">>, <<"c","r","a","f","t">>, <<"e","x","h","i","b","i","t","i","o","n">>, <<"g","a","l","l","e","r","y">>, <<"c","u","l","t","u","r","e">>, <<"m","u","s","e","u","m">>, <<"d","r","a","w","i","n","g">>, <<"p","a","i","n","t","i","n","g">>>>],
     [name |-> "Sports & Recreation",
      keywords |-> <<<<"s","p","o","r","t">>, <<"v","o","l","l","e","y","b","a","l","l">>, <<"s","k","a","t","e","b","o","a","r","d">>, <<"t","r","a","i","n","i","n","g">>, <<"f","i","t","n","e","s","s">>, <<"g","y","m">>, <<"r","e","c","r","e","a","t","i","o","n">>>>],
     [name |-> "Comedy & Entertainment",
      keywords |-> <<<<"c","o","m","e","d","y">>, <<"c","o","m","e","d","i","a","n">>, <<"l","a","u","g","h">>, <<"e","n","t","e","r","t","a","i","n","m","e","n","t">>, <<"m","a","g","i","c">>, <<"i","l","l","u","s","i","o","n","i","s","t">>>>],
     [name |-> "Food & Dining",
      keywords |-> <<<<"f","o","o","d">>, <<"d","i","n","i","n","g">>, <<"r","e","s","t","a","u","r","a","n","t">>, <<"c","u","i","s","i","n","e">>, <<"c","h","e","f">>, <<"c","o","o","k","i","n","g">>, <<"m","a","r","k","e","t">>>>],
     [name |-> "Education & Workshops",
      keywords |-> <<<<"w","o","r","k","s","h","o","p">>, <<"c","l","a","s","s">>, <<"l","e","a","r","n">>, <<"t","r","a","i","n","i","n","g">>, <<"e","d","u","c","a","t","i","o","n">>, <<"c","o","u","r","s","e">>, <<"t","u","t","o","r","i","a","l">>>>],
     [name |-> "Family & Children",
      keywords |-> <<<<"c","h","i","l","d","r","e","n">>, <<"k","i","d","s">>, <<"f","a","m","i","l","y">>, <<"y","o","u","t","h">>, <<"t","e","e","n","s">>, <<"p","l","a","y","g","r","o","u","n","d">>>>],
     [name |-> "Health & Wellness",
      keywords |-> <<<<"y","o","g","a">>, <<"w","e","l","l","n","e","s","s">>, <<"h","e","a","l","t","h">>, <<"m","e","d","i","t","a","t","i","o","n">>, <<"t","h","e","r","a","p","y">>, <<"h","e","a","l","i","n","g">>>>],
     [name |-> "Business & Professional",
      keywords |-> <<<<"b","u","s","i","n","e","s","s">>, <<"p","r","o","f","e","s","s","i","o","n","a","l">>, <<"n","e","t","w","o","r","k","i","n","g">>, <<"c","o","n","f","e","r","e","n","c","e">>, <<"m","e","e","t","i","n","g">>>>],
     [name |-> "Film & Cinema",
      keywords |-> <<<<"f","i","l","m">>, <<"m","o","v","i","e">>, <<"c","i","n","e","m","a">>, <<"s","c","r","e","e","n","i","n","g">>, <<"d","o","c","u","m","e","n","t","a","r","y">>>>],
     [name |-> "Other",
      keywords |-> <<>>]
    >>

\* for category, keywords in categories.items(): first category with a keyword in content
RECURSIVE FirstCategory(_, _)
FirstCategory(content, k) ==
    IF k > Len(categories) THEN "Other"
    ELSE IF AnyIn(categories[k].keywords, content) THEN categories[k].name
    ELSE FirstCategory(content, k + 1)

\* the scan keeping the last matching category instead of the first
RECURSIVE LastCategory(_, _)
LastCategory(content, k) ==
    IF k = 0 THEN "Other"
    ELSE IF AnyIn(categories[k].keywords, content) THEN categories[k].name
    ELSE LastCategory(content, k - 1)

extract_event_category_last_match(title, description) ==
    LastCategory(Lower(title \o <<" ">> \o description), Len(categories))

extract_event_category(title, description) ==
    FirstCategory(Lower(title \o <<" ">> \o description), 1)

\* title.text or ''
EventTitles ==
    {<<"J","a","z","z"," ","N","i","g","h","t">>,
     <<"A","r","t"," ","M","a","r","k","e","t">>,
     <<"S","t","a","f","f"," ","T","r","a","i","n","i","n","g">>,
     <<"K","i","d","s"," ","Y","o","g","a">>,
     <<"F","i","l","m"," ","S","c","r","e","e","n","i","n","g">>,
     <<"B","u","s","i","n","e","s","s">>,
     <<"Q","u","i","z">>,
     <<>>}

\* desc_data['description_text']
EventDescriptions ==
    {<<"L","i","v","e"," ","b","a","n","d">>,
     <<"A"," ","c","o","o","k","i","n","g"," ","c","l","a","s","s">>,
     <<"F","a","m","i","l","y"," ","f","u","n">>,
     <<"N","e","t","w","o","r","k","i","n","g"," ","m","e","e","t","i","n","g">>,
     <<"O","p","e","n"," ","d","a","y">>,
     <<"P","a","r","t","y">>,
     <<"t","a","g">>,
     <<>>}

InitEvents ==
    /\ script = "fetch_eventfinda_data"
    /\ pc = "start"
    /\ IdleMaritime /\ IdleTourism /\ IdleNiwa
    /\ IdleFuelType /\ IdleQuarterly /\ IdleFuelFixed /\ IdleTideFetch /\ IdleTideProc
    /\ IdleAirfares /\ IdleNiwaRuns /\ IdleDisk /\ IdleWaipuna /\ IdleTourismMain
    /\ IdleEventMain /\ IdleFuelTables /\ IdleEventDates
    /\ event \in [title : EventTitles, description : EventDescriptions]
    /\ event_category = Unset

\* category = extract_event_category(title.text or '', desc_data['description_text'])
CategorizeEvent ==
    /\ script = "fetch_eventfinda_data"
    /\ pc = "start"
    /\ pc' = "done"
    /\ event_category' = extract_event_category(event.title, event.description)
    /\ UNCHANGED << script, event,
                    maritimeVars, tourismVars, niwaVars,
                    fuelTypeVars, quarterlyVars, fuelFixedVars, tideFetchVars,
                    tideProcVars, airfareVars, niwaRunVars, diskVars, waipunaVars,
                    tourismMainVars, eventMainVars, fuelTableVars, eventDateVars >>

\* the order claim C9 lists
C9Order ==
    <<"Music & Performance", "Arts & Culture", "Sports & Recreation",
      "Comedy & Entertainment", "Food & Dining", "Education & Workshops",
      "Family & Children", "Health & Wellness", "Business & Professional",
      "Film & Cinema">>

\* the categories of C9Order one of whose keywords is in the lower-cased text
C9Matching(content) ==
    {k \in 1..Len(C9Order) :
        /\ categories[k].name = C9Order[k]
        /\ \E j \in 1..Len(categories[k].keywords) :
               Contains(content, categories[k].keywords[j])}

\* C9: the category is the first of the listed order with a keyword in the
\* lower-cased 'title description' text, and 'Other' exactly when no keyword
\* of any category matches.
C9_FirstMatchingCategory ==
    pc = "done" =>
        LET m == C9Matching(Lower(event.title \o <<" ">> \o event.description))
        IN  /\ m # {} => /\ event_category \in {C9Order[k] : k \in m}
                         /\ \A k \in m : \E j \in m :
                                j <= k /\ event_category = C9Order[j]
            /\ (event_category = "Other") <=> (m = {})

\* 'Staff Training' matches Sports & Recreation and Education & Workshops
C9_Witness ==
    /\ pc = "done"
    /\ event.title = <<"S","t","a","f","f"," ","T","r","a","i","n","i","n","g">>
    /\ event.description = <<>>
    /\ Cardinality(C9Matching(Lower(event.title \o <<" ">> \o event.description))) = 2
    /\ event_category = "Sports & Recreation"

(***************************************************************************)
(* process_tourism_data.py: guest nights and occupancy rates               *)
(***************************************************************************)
\* the characters str.strip() removes (the model's cells hold no other blank)
Whitespace == {" "}

RECURSIVE LStrip(_)
LStrip(s) == IF s # <<>> /\ Head(s) \in Whitespace THEN LStrip(Tail(s)) ELSE s

RECURSIVE RStrip(_)
RStrip(s) ==
    IF s # <<>> /\ s[Len(s)] \in Whitespace THEN RStrip(SubSeq(s, 1, Len(s) - 1)) ELSE s

\* str.strip()
Strip(s) == RStrip(LStrip(s))

\* pd.isna(region_cell) or region_cell == '' or str(region_cell).strip() in [' ', '']
RegionCellEmpty(region_cell) ==
    \/ region_cell.kind = "nan"
    \/ (region_cell.kind = "str" /\ region_cell.s = <<>>)
    \/ Strip(PyStr(region_cell)) \in {<<" ">>, <<>>}

\* pd.notna(metric_cell) and metric_cell != ''
MetricCellPresent(metric_cell) ==
    /\ metric_cell.kind # "nan"
    /\ ~(metric_cell.kind = "str" /\ metric_cell.s = <<>>)

UnknownRegion == <<"U","n","k","n","o","w","n">>

\* current_region if current_region else 'Unknown'   (None and '' are falsy)
RegionOrUnknown(current_region) ==
    IF current_region.kind = "str" /\ current_region.s # <<>>
    THEN current_region.s ELSE UnknownRegion

\* the loop body that takes a region name only from a column that emits a pair
ExtractColumnRegionOnEmit(acc, region_cell, metric_cell) ==
    IF RegionCellEmpty(region_cell)
    THEN IF MetricCellPresent(metric_cell)
         THEN [acc EXCEPT
                 !.regions = Append(@, RegionOrUnknown(acc.current_region)),
                 !.metrics = Append(@, Strip(PyStr(metric_cell)))]
         ELSE acc
    ELSE IF MetricCellPresent(metric_cell)
         THEN [regions |-> Append(acc.regions, Strip(PyStr(region_cell))),
               metrics |-> Append(acc.metrics, Strip(PyStr(metric_cell))),
               current_region |-> Str(Strip(PyStr(region_cell)))]
         ELSE acc

\* one iteration of the loop of extract_region_columns over a column
ExtractColumn(acc, region_cell, metric_cell) ==
    IF RegionCellEmpty(region_cell)
    THEN IF MetricCellPresent(metric_cell)
         THEN [acc EXCEPT
                 !.regions = Append(@, RegionOrUnknown(acc.current_region)),
                 !.metrics = Append(@, Strip(PyStr(metric_cell)))]
         ELSE acc
    ELSE LET region_name == Strip(PyStr(region_cell))
             current == IF region_name # <<>> /\ region_name \notin {<<" ">>, <<>>}
                        THEN Str(region_name) ELSE acc.current_region
         IN  IF MetricCellPresent(metric_cell)
             THEN [regions |-> Append(acc.regions, RegionOrUnknown(current)),
                   metrics |-> Append(acc.metrics, Strip(PyStr(metric_cell))),
                   current_region |-> current]
             ELSE [acc EXCEPT !.current_region = current]

\* the loop over zip(header_row, metric_row), columns 1..n
RECURSIVE ExtractLoop(_, _, _)
ExtractLoop(header_row, metric_row, n) ==
    IF n = 0 THEN [regions |-> <<>>, metrics |-> <<>>, current_region |-> NaN]
    ELSE ExtractColumn(ExtractLoop(header_row, metric_row, n - 1),
                       header_row[n], metric_row[n])

MinOf(a, b) == IF a <= b THEN a ELSE b

\* returns regions, metrics
extract_region_columns(header_row, metric_row) ==
    LET acc == ExtractLoop(header_row, metric_row,
                           MinOf(Len(header_row), Len(metric_row)))
    IN  [regions |-> acc.regions, metrics |-> acc.metrics]

DigitChars == <<"0","1","2","3","4","5","6","7","8","9">>

IsDigits(s) ==
    /\ s # <<>>
    /\ \A i \in 1..Len(s) : \E d \in 1..Len(DigitChars) : DigitChars[d] = s[i]

DigitValue(c) == (CHOOSE d \in 1..Len(DigitChars) : DigitChars[d] = c) - 1

\* int() of a string of digits
RECURSIVE DigitsToInt(_)
DigitsToInt(s) ==
    IF s = <<>> THEN 0
    ELSE 10 * DigitsToInt(SubSeq(s, 1, Len(s) - 1)) + DigitValue(s[Len(s)])

\* the least element of a set of numbers
Min1(S) == CHOOSE x \in S : \A y \in S : x <= y

\* no date: parse_period_to_date returned None
NoDate == <<0, 0, 0>>

\* year, month = period_str.split('M'); pd.to_datetime(f"{year}-{month.zfill(2)}-01").
\* pd.to_datetime is taken to parse exactly the texts with a four-digit year and
\* a month 1..12 of one or two digits; a split into other than two parts raises.
MonthlyDate(period_str, ms) ==
    IF Cardinality(ms) # 1 THEN NoDate
    ELSE IF /\ IsDigits(SubSeq(period_str, 1, Min1(ms) - 1))
            /\ Len(SubSeq(period_str, 1, Min1(ms) - 1)) = 4
            /\ IsDigits(SubSeq(period_str, Min1(ms) + 1, Len(period_str)))
            /\ Len(period_str) - Min1(ms) <= 2
            /\ DigitsToInt(SubSeq(period_str, Min1(ms) + 1, Len(period_str))) \in 1..12
    THEN <<DigitsToInt(SubSeq(period_str, 1, Min1(ms) - 1)),
           DigitsToInt(SubSeq(period_str, Min1(ms) + 1, Len(period_str))), 1>>
    ELSE NoDate

\* year = int(period_str); if 1800 <= year <= 2100: pd.to_datetime(f"{year}-01-01")
AnnualDate(period_str) ==
    IF IsDigits(period_str) /\ DigitsToInt(period_str) >= 1800
                            /\ DigitsToInt(period_str) <= 2100
    THEN <<DigitsToInt(period_str), 1, 1>>
    ELSE NoDate

\* the body of parse_period_to_date after period_str = str(period_str).strip()
StrippedPeriodDate(period_str) ==
    IF \E i \in 1..Len(period_str) : period_str[i] = "M"
    THEN MonthlyDate(period_str, {i \in 1..Len(period_str) : period_str[i] = "M"})
    ELSE AnnualDate(period_str)

parse_period_to_date(period_cell) ==
    IF period_cell.kind = "nan" THEN NoDate
    ELSE IF period_cell.kind = "str" /\ period_cell.s \in {<<>>, <<" ">>} THEN NoDate
    ELSE StrippedPeriodDate(Strip(PyStr(period_cell)))

\* pd.to_numeric(cell, errors='coerce'): a number, the number a text of digits
\* reads as, or NaN for anything else
to_numeric_coerce(cell) ==
    IF cell.kind = "num" THEN cell
    ELSE IF cell.kind = "str" /\ IsDigits(Strip(cell.s)) THEN Num(DigitsToInt(Strip(cell.s)))
    ELSE NaN

DataSource(dataset) ==
    IF dataset = "guest_nights" THEN "Stats NZ ACS348801" ELSE "Stats NZ ACS348401"

DatasetDescription(dataset) ==
    IF dataset = "guest_nights" THEN "Guest Nights by Region (Monthly)"
    ELSE "Occupancy Rate by Region (Monthly)"

\* the records one data row appends, without their load_timestamp: one per
\* (region, metric) pair i whose cell row.iloc[i + 1] is numeric and whose
\* region is not 'Unknown'
RECURSIVE RowRecords(_, _, _, _, _, _)
RowRecords(dataset, report_date, row, regs, mets, n) ==
    IF n = 0 THEN <<>>
    ELSE IF n >= Len(row) \/ to_numeric_coerce(row[n + 1]).kind = "nan"
                          \/ regs[n] = UnknownRegion
    THEN RowRecords(dataset, report_date, row, regs, mets, n - 1)
    ELSE Append(RowRecords(dataset, report_date, row, regs, mets, n - 1),
                [report_date |-> report_date,
                 period_type |-> "Monthly",
                 region |-> regs[n],
                 metric_type |-> mets[n],
                 value |-> to_numeric_coerce(row[n + 1]).v,
                 data_source |-> DataSource(dataset),
                 dataset_description |-> DatasetDescription(dataset)])

\* a loop without its 'if report_date is None: continue'
DatedRowRecordsKeepUndated(dataset, report_date, row, regs, mets) ==
    RowRecords(dataset, report_date, row, regs, mets, MinOf(Len(regs), Len(mets)))

\* report_date = parse_period_to_date(period_str); a row without a date is skipped
DatedRowRecords(dataset, report_date, row, regs, mets) ==
    IF report_date = NoDate THEN <<>>
    ELSE RowRecords(dataset, report_date, row, regs, mets, MinOf(Len(regs), Len(mets)))

\* for _, row in data_rows.iterrows()
RECURSIVE AllRecords(_, _, _, _, _)
AllRecords(dataset, data_rows, regs, mets, r) ==
    IF r = 0 THEN <<>>
    ELSE AllRecords(dataset, data_rows, regs, mets, r - 1)
         \o DatedRowRecords(dataset, parse_period_to_date(data_rows[r][1]),
                            data_rows[r], regs, mets)

\* the values successive datetime.now() calls can return: never decreasing,
\* and equal when two calls fall within one tick of the clock
ClockReadings(n) ==
    {t \in [1..n -> 0..(n - 1)] :
        /\ n > 0 => t[1] = 0
        /\ \A i \in 1..(n - 1) : t[i + 1] \in {t[i], t[i] + 1}}

\* the first non-null value of a group (pandas 'first')
AggFirst(values) == IF values = <<>> THEN NaN ELSE Num(values[1])

RECURSIVE SumSeq(_)
SumSeq(values) == IF values = <<>> THEN 0 ELSE values[1] + SumSeq(Tail(values))

\* the mean of a group (pandas 'mean'): a number when it is whole, else a fraction
AggMean(values) ==
    IF values = <<>> THEN NaN
    ELSE IF SumSeq(values) % Len(values) = 0 THEN Num(SumSeq(values) \div Len(values))
    ELSE [kind |-> "frac", n |-> SumSeq(values), d |-> Len(values)]

\* the values, in record order, of the records with this index and this category
RECURSIVE GroupValues(_, _, _, _)
GroupValues(records, index, category, n) ==
    IF n = 0 THEN <<>>
    ELSE LET before == GroupValues(records, index, category, n - 1)
         IN  IF records[n].index = index /\ records[n].category = category
             THEN Append(before, records[n].value) ELSE before

\* aggfunc: 'first', or pivot_table's default 'mean'
Aggregate(aggfunc, values) ==
    IF aggfunc = "first" THEN AggFirst(values) ELSE AggMean(values)

\* DataFrame.pivot_table: one row per distinct index, one column per distinct
\* category, each cell the aggregate of its group
PivotTable(records, aggfunc) ==
    LET indexes == {records[i].index : i \in 1..Len(records)}
        cats == {records[i].category : i \in 1..Len(records)}
    IN  {[index |-> ix,
          cells |-> [c \in cats |->
                      Aggregate(aggfunc, GroupValues(records, ix, c, Len(records)))]]
         : ix \in indexes}

\* the long-format view pivot_table takes of processed_data: index=[report_date,
\* period_type, region, data_source, dataset_description, load_timestamp],
\* columns='metric_type', values='value'
TourismLong(processed) ==
    [i \in 1..Len(processed) |->
        [index |-> [report_date |-> processed[i].report_date,
                    period_type |-> processed[i].period_type,
                    region |-> processed[i].region,
                    data_source |-> processed[i].data_source,
                    dataset_description |-> processed[i].dataset_description,
                    load_timestamp |-> processed[i].load_timestamp],
         category |-> processed[i].metric_type,
         value |-> processed[i].value]]

\* aggfunc='first'
TourismPivot(processed) == PivotTable(TourismLong(processed), "first")


\* columns of the CSV, the period column included
MaxCols == 3

\* region-header cells (row 1 of the CSV): missing, blank, a name, a padded name
RegionHeaderCells ==
    {NaN, Str(<<" ">>), Str(<<"A","u","c","k","l","a","n","d">>), Str(<<" ","O","t","a","g","o"," ">>)}

\* metric-header cells (row 2 of the CSV): missing, blank, a metric name
MetricHeaderCells ==
    {NaN, Str(<<" ">>), Str(<<"N","i","g","h","t","s">>)}

\* a data row whose cells tell their columns apart: 2020M01, 11, 12, ...
NumberedRow(n) ==
    [c \in 1..n |-> IF c = 1 THEN Str(<<"2","0","2","0","M","0","1">>) ELSE Num(10 + c - 1)]

\* data rows of the CSV: a period cell and two value cells
TourismRows ==
    {<<Str(<<"2","0","2","0","M","0","1">>), Num(10), Num(20)>>,
     <<Str(<<"2","0","2","0","M","0","1">>), Num(30), NaN>>,
     <<Str(<<"2","0","2","0","M","0","2">>), Num(40), Str(<<".",".">>)>>,
     <<Str(<<"2","0","2","3">>), Num(50), Num(60)>>,
     <<Str(<<"1","7","5","0">>), Num(70), Num(80)>>,
     <<Str(<<"2","0","2","0","M","1","3">>), Num(90), Num(10)>>,
     <<Str(<<"T","a","b","l","e"," ","i","n","f","o","r","m","a","t","i","o","n",":">>), NaN, NaN>>,
     <<NaN, Num(20), Num(30)>>}

MaxDataRows == 2

\* the header layouts the data rows are read under: one region spanning two
\* metric columns; two columns with the same region and the same metric; empty
\* text ('') in the region row and in the metric row
DataHeaders ==
    {[header_regions |-> <<Str(<<" ">>), Str(<<"A","u","c","k","l","a","n","d">>), NaN>>,
      header_metrics |-> <<NaN, Str(<<"N","i","g","h","t","s">>), Str(<<"R","a","t","e"," ">>)>>],
     [header_regions |-> <<NaN, Str(<<"A","u","c","k","l","a","n","d">>), Str(<<"A","u","c","k","l","a","n","d">>)>>,
      header_metrics |-> <<NaN, Str(<<"N","i","g","h","t","s">>), Str(<<"N","i","g","h","t","s">>)>>],
     [header_regions |-> <<Str(<<>>), Str(<<"A","u","c","k","l","a","n","d">>), Str(<<>>)>>,
      header_metrics |-> <<Str(<<>>), Str(<<>>), Str(<<"R","a","t","e"," ">>)>>],
     [header_regions |-> <<Str(<<>>), Str(<<>>), Str(<<"A","u","c","k","l","a","n","d">>)>>,
      header_metrics |-> <<Str(<<"N","i","g","h","t","s">>), Str(<<>>), Str(<<>>)>>]}

\* the CSV files: every header of MaxCols columns over one numbered data row,
\* and the layouts of DataHeaders over every sequence of 1..MaxDataRows rows
TourismCsvs ==
    {[dataset |-> "guest_nights", header_regions |-> hr, header_metrics |-> hm,
      data_rows |-> <<NumberedRow(MaxCols)>>]
        : hr \in [1..MaxCols -> RegionHeaderCells],
          hm \in [1..MaxCols -> MetricHeaderCells]}
    \cup
    UNION {{[dataset |-> ds, header_regions |-> h.header_regions,
             header_metrics |-> h.header_metrics, data_rows |-> rows]
              : ds \in {"guest_nights", "occupancy_rates"}, h \in DataHeaders,
                rows \in [1..n -> TourismRows]}
           : n \in 1..MaxDataRows}

InitTourism ==
    /\ script = "process_tourism_data"
    /\ pc = "start"
    /\ IdleMaritime /\ IdleEvents /\ IdleNiwa
    /\ IdleFuelType /\ IdleQuarterly /\ IdleFuelFixed /\ IdleTideFetch /\ IdleTideProc
    /\ IdleAirfares /\ IdleNiwaRuns /\ IdleDisk /\ IdleWaipuna /\ IdleTourismMain
    /\ IdleEventMain /\ IdleFuelTables /\ IdleEventDates
    /\ tourism_csv \in TourismCsvs
    /\ regions = Unset /\ metrics = Unset
    /\ processed_data = Unset /\ result_df = Unset

\* regions, metrics = extract_region_columns(header_regions, header_metrics)
ExtractRegionColumns ==
    /\ script = "process_tourism_data"
    /\ pc = "start"
    /\ LET got == extract_region_columns(tourism_csv.header_regions,
                                         tourism_csv.header_metrics)
       IN  regions' = got.regions /\ metrics' = got.metrics
    /\ pc' = "extracted"
    /\ UNCHANGED << script, tourism_csv, processed_data, result_df,
                    maritimeVars, eventVars, niwaVars,
                    fuelTypeVars, quarterlyVars, fuelFixedVars, tideFetchVars,
                    tideProcVars, airfareVars, niwaRunVars, diskVars, waipunaVars,
                    tourismMainVars, eventMainVars, fuelTableVars, eventDateVars >>

\* 'load_timestamp': datetime.now() of each record, in the order they are appended
StampRecords(recs, now) ==
    [i \in 1..Len(recs) |->
        [report_date |-> recs[i].report_date,
         period_type |-> recs[i].period_type,
         region |-> recs[i].region,
         metric_type |-> recs[i].metric_type,
         value |-> recs[i].value,
         data_source |-> recs[i].data_source,
         dataset_description |-> recs[i].dataset_description,
         load_timestamp |-> now[i]]]

StampedRecords(recs) == {StampRecords(recs, now) : now \in ClockReadings(Len(recs))}

\* the loop over data_rows; every record takes its load_timestamp from datetime.now()
BuildRecords ==
    /\ script = "process_tourism_data"
    /\ pc = "extracted"
    /\ processed_data' \in
          StampedRecords(AllRecords(tourism_csv.dataset, tourism_csv.data_rows,
                                    regions, metrics, Len(tourism_csv.data_rows)))
    /\ pc' = "built"
    /\ UNCHANGED << script, tourism_csv, regions, metrics, result_df,
                    maritimeVars, eventVars, niwaVars,
                    fuelTypeVars, quarterlyVars, fuelFixedVars, tideFetchVars,
                    tideProcVars, airfareVars, niwaRunVars, diskVars, waipunaVars,
                    tourismMainVars, eventMainVars, fuelTableVars, eventDateVars >>

\* if len(result_df) > 0: result_df = result_df.pivot_table(..., aggfunc='first')
PivotRecords ==
    /\ script = "process_tourism_data"
    /\ pc = "built"
    /\ result_df' = IF Len(processed_data) > 0 THEN TourismPivot(processed_data) ELSE {}
    /\ pc' = "done"
    /\ UNCHANGED << script, tourism_csv, regions, metrics, processed_data,
                    maritimeVars, eventVars, niwaVars,
                    fuelTypeVars, quarterlyVars, fuelFixedVars, tideFetchVars,
                    tideProcVars, airfareVars, niwaRunVars, diskVars, waipunaVars,
                    tourismMainVars, eventMainVars, fuelTableVars, eventDateVars >>

NextTourism == ExtractRegionColumns \/ BuildRecords \/ PivotRecords


\* the elements of a set of numbers in ascending order
RECURSIVE Ascending(_)
Ascending(S) == IF S = {} THEN <<>> ELSE <<Min1(S)>> \o Ascending(S \ {Min1(S)})

Max1(S) == CHOOSE x \in S : \A y \in S : y <= x

\* a header cell that is not blank: not null, not empty, not whitespace only
NonBlankCell(cell) == cell.kind = "str" /\ Strip(cell.s) # <<>>

\* the columns for which the loop of extract_region_columns appends a pair
EmittingColumns ==
    Ascending({c \in 1..Len(tourism_csv.header_metrics) :
                 /\ tourism_csv.header_metrics[c].kind # "nan"
                 /\ tourism_csv.header_metrics[c] # Str(<<>>)})

\* the non-blank region cells at or before column c
RegionsUpTo(c) == {j \in 1..c : NonBlankCell(tourism_csv.header_regions[j])}

\* C6: each emitted pair has as primary the (stripped) nearest non-blank region
\* cell at or before its column, and 'Unknown' exactly when there is none; the
\* primary is never null.
C6_PrimaryCarriedForward ==
    pc \in {"extracted", "built", "done"} =>
        /\ Len(regions) = Len(EmittingColumns)
        /\ \A k \in 1..Len(EmittingColumns) :
              /\ RegionsUpTo(EmittingColumns[k]) # {} =>
                    regions[k] =
                       Strip(tourism_csv.header_regions[
                                Max1(RegionsUpTo(EmittingColumns[k]))].s)
              /\ (regions[k] = UnknownRegion) <=> (RegionsUpTo(EmittingColumns[k]) = {})
              /\ regions[k] # <<>>

\* a blank-region column before the first region gets 'Unknown', one after it
\* gets that region
C6_Witness ==
    /\ pc = "extracted"
    /\ tourism_csv.header_regions = <<Str(<<" ">>), Str(<<"A","u","c","k","l","a","n","d">>), NaN>>
    /\ tourism_csv.header_metrics = <<Str(<<"N","i","g","h","t","s">>), Str(<<"N","i","g","h","t","s">>), Str(<<"N","i","g","h","t","s">>)>>
    /\ regions = <<UnknownRegion, <<"A","u","c","k","l","a","n","d">>, <<"A","u","c","k","l","a","n","d">>>>

\* a blank-region column after two regions gets the nearer one
C6_WitnessCarry ==
    /\ pc = "extracted"
    /\ tourism_csv.header_regions = <<Str(<<"A","u","c","k","l","a","n","d">>), Str(<<" ","O","t","a","g","o"," ">>), Str(<<" ">>)>>
    /\ tourism_csv.header_metrics = <<NaN, NaN, Str(<<"N","i","g","h","t","s">>)>>
    /\ regions = <<<<"O","t","a","g","o">>>>

\* the columns whose metric cell is not blank
NonBlankMetricColumns ==
    Ascending({c \in 1..Len(tourism_csv.header_metrics) :
                 NonBlankCell(tourism_csv.header_metrics[c])})

\* C7: a pair is emitted for a column if and only if its metric cell is not
\* blank (null, empty or whitespace only), whatever its region cell is, and the
\* two returned lists have the same length.
C7_EmittedIffMetricNonBlank ==
    pc \in {"extracted", "built", "done"} =>
        /\ Len(regions) = Len(metrics)
        /\ Len(metrics) = Len(NonBlankMetricColumns)
        /\ \A k \in 1..Len(NonBlankMetricColumns) :
              k <= Len(metrics) =>
                 metrics[k] = Strip(tourism_csv.header_metrics[NonBlankMetricColumns[k]].s)

(***************************************************************************)
(* process_niwa_climate.py and process_waipuna_rangi_complete.py: the      *)
(* monthly NIWA station tables                                             *)
(***************************************************************************)
\* monthly_files of process_rainfall_data and of process_temperature_data, in
\* dict order
MonthlyParams(data_type) ==
    IF data_type = "rain" THEN <<"total_rainfall", "rain_days", "runoff", "deficit">>
    ELSE <<"mean_temp", "mean_max", "mean_min">>

\* the monthly members process_niwa_climate_data keeps, with the column each
\* STATS_VALUE is renamed to
WaipunaMonthlyColumn(param) ==
    CASE param = "total_rainfall" -> "total_rainfall_mm"
      [] param = "rain_days" -> "rain_days_count"
      [] param = "runoff" -> "total_runoff_mm"
      [] param = "deficit" -> "total_deficit_mm"
      [] param = "mean_temp" -> "mean_temperature_c"
      [] OTHER -> "ignored"

\* values=[...] of the monthly rainfall pivot_table
WaipunaRainfallValues ==
    {"total_rainfall_mm", "rain_days_count", "total_runoff_mm", "total_deficit_mm"}

NoFile == [exists |-> FALSE]

CsvFile(rows) == [exists |-> TRUE, rows |-> rows]

\* rows of a monthly parameter file: PERIOD, YEAR, STATS_VALUE
NiwaRows ==
    {[PERIOD |-> "January", YEAR |-> 2020, STATS_VALUE |-> 10],
     [PERIOD |-> "January", YEAR |-> 2020, STATS_VALUE |-> 20],
     [PERIOD |-> "February", YEAR |-> 2020, STATS_VALUE |-> 30]}

MaxFileRows == 2

NiwaFiles == {CsvFile(rows) : rows \in UNION {[1..n -> NiwaRows] : n \in 0..MaxFileRows}}

\* the members of a station zip: at most two parameter files with any rows, or
\* every parameter file, the first two with any rows and the others with one row
NiwaZipMembers(data_type) ==
    LET params == MonthlyParams(data_type)
        P == 1..Len(params)
    IN  {f \in [P -> NiwaFiles \cup {NoFile}] :
            Cardinality({k \in P : f[k].exists}) <= 2}
        \cup
        {f \in [P -> NiwaFiles] :
            \A k \in P : k > 2 =>
               f[k] = CsvFile(<<[PERIOD |-> "February", YEAR |-> 2020,
                                 STATS_VALUE |-> 30]>>)}

\* df['param'] = param, for the rows of one file
FileRecords(param, rows) ==
    [i \in 1..Len(rows) |->
        [index |-> [PERIOD |-> rows[i].PERIOD, YEAR |-> rows[i].YEAR],
         category |-> param,
         value |-> rows[i].STATS_VALUE]]

\* monthly_df = pd.concat(monthly_data.values()): the files that exist (and, for
\* temperature, are not empty), in dict order
RECURSIVE NiwaConcat(_, _, _)
NiwaConcat(data_type, members, k) ==
    IF k = 0 THEN <<>>
    ELSE IF members[k].exists
    THEN NiwaConcat(data_type, members, k - 1)
         \o FileRecords(MonthlyParams(data_type)[k], members[k].rows)
    ELSE NiwaConcat(data_type, members, k - 1)

\* if monthly_data:  (a temperature file that is empty is not kept)
NiwaAnyMonthly(data_type, members) ==
    \E k \in 1..Len(members) :
        /\ members[k].exists
        /\ data_type = "temperature" => members[k].rows # <<>>

\* datetime.strptime(x, '%B').month
MonthNumber(period) ==
    CASE period = "January" -> 1 [] period = "February" -> 2 [] OTHER -> 0

\* the rows of one member with station_id, station_name, load_timestamp and
\* month_number added and STATS_VALUE renamed
MemberRecords(station_id, param, rows, now) ==
    [i \in 1..Len(rows) |->
        [index |-> [PERIOD |-> rows[i].PERIOD, YEAR |-> rows[i].YEAR,
                    station_id |-> station_id,
                    load_timestamp |-> now,
                    month_number |-> MonthNumber(rows[i].PERIOD)],
         category |-> WaipunaMonthlyColumn(param),
         value |-> rows[i].STATS_VALUE]]

\* all_monthly_*_data after the loop over the members, concatenated; now[k] is
\* datetime.now() when member k is read
RECURSIVE WaipunaConcat(_, _, _, _, _)
WaipunaConcat(station_id, data_type, members, now, k) ==
    IF k = 0 THEN <<>>
    ELSE IF members[k].exists
            /\ WaipunaMonthlyColumn(MonthlyParams(data_type)[k]) # "ignored"
            /\ (data_type = "temperature" => MonthlyParams(data_type)[k] = "mean_temp")
    THEN WaipunaConcat(station_id, data_type, members, now, k - 1)
         \o MemberRecords(station_id, MonthlyParams(data_type)[k], members[k].rows, now[k])
    ELSE WaipunaConcat(station_id, data_type, members, now, k - 1)

\* if all_monthly_rainfall_data / all_monthly_temperature_data: a frame was appended
WaipunaAnyMonthly(data_type, members) ==
    \E k \in 1..Len(members) :
        /\ members[k].exists
        /\ IF data_type = "rain" THEN TRUE
           ELSE MonthlyParams(data_type)[k] = "mean_temp"

\* pivot_table raises KeyError for a label of values=[...] that is no column of
\* the frame; the temperature pivot passes only the columns that are there
WaipunaKeyError(data_type, members) ==
    /\ data_type = "rain"
    /\ \E k \in 1..Len(members) : ~members[k].exists


NiwaScripts == {"process_niwa_climate", "process_waipuna_rangi_complete"}

InitNiwa ==
    /\ script \in NiwaScripts
    /\ pc = "start"
    /\ IdleMaritime /\ IdleEvents /\ IdleTourism
    /\ IdleFuelType /\ IdleQuarterly /\ IdleFuelFixed /\ IdleTideFetch /\ IdleTideProc
    /\ IdleAirfares /\ IdleNiwaRuns /\ IdleDisk /\ IdleWaipuna /\ IdleTourismMain
    /\ IdleEventMain /\ IdleFuelTables /\ IdleEventDates
    /\ \E data_type \in {"rain", "temperature"} :
         \E members \in NiwaZipMembers(data_type) :
            niwa_zip = [station_id |-> 2112, data_type |-> data_type,
                        members |-> members]
    /\ monthly_df = <<>>
    /\ monthly_pivot = {}
    /\ niwa_error = "none"

\* process_rainfall_data / process_temperature_data of process_niwa_climate.py,
\* monthly part: concat the parameter files and pivot them with the default
\* aggfunc
ProcessMonthlyData ==
    /\ script = "process_niwa_climate"
    /\ pc = "start"
    /\ IF NiwaAnyMonthly(niwa_zip.data_type, niwa_zip.members)
       THEN /\ monthly_df' = NiwaConcat(niwa_zip.data_type, niwa_zip.members,
                                        Len(niwa_zip.members))
            /\ monthly_pivot' = PivotTable(monthly_df', "mean")
       ELSE UNCHANGED << monthly_df, monthly_pivot >>
    /\ pc' = "done"
    /\ UNCHANGED << script, niwa_zip, niwa_error,
                    maritimeVars, eventVars, tourismVars,
                    fuelTypeVars, quarterlyVars, fuelFixedVars, tideFetchVars,
                    tideProcVars, airfareVars, niwaRunVars, diskVars, waipunaVars,
                    tourismMainVars, eventMainVars, fuelTableVars, eventDateVars >>

\* process_niwa_climate_data of process_waipuna_rangi_complete.py, monthly
\* tables: concat the members read and pivot them with aggfunc='first'
ProcessNiwaClimateData ==
    /\ script = "process_waipuna_rangi_complete"
    /\ pc = "start"
    /\ \E now \in ClockReadings(Len(niwa_zip.members)) :
         IF ~WaipunaAnyMonthly(niwa_zip.data_type, niwa_zip.members)
         THEN UNCHANGED << monthly_df, monthly_pivot, niwa_error >>
         ELSE /\ monthly_df' = WaipunaConcat(niwa_zip.station_id, niwa_zip.data_type,
                                             niwa_zip.members, now,
                                             Len(niwa_zip.members))
              /\ IF WaipunaKeyError(niwa_zip.data_type, niwa_zip.members)
                 THEN niwa_error' = "KeyError" /\ UNCHANGED monthly_pivot
                 ELSE /\ monthly_pivot' = PivotTable(monthly_df', "first")
                      /\ UNCHANGED niwa_error
    /\ pc' = "done"
    /\ UNCHANGED << script, niwa_zip,
                    maritimeVars, eventVars, tourismVars,
                    fuelTypeVars, quarterlyVars, fuelFixedVars, tideFetchVars,
                    tideProcVars, airfareVars, niwaRunVars, diskVars, waipunaVars,
                    tourismMainVars, eventMainVars, fuelTableVars, eventDateVars >>

NextNiwa == ProcessMonthlyData \/ ProcessNiwaClimateData

\* the rows of a long-format frame that are the first of their index and category
FirstOfGroup(long) ==
    {i \in 1..Len(long) :
        \A j \in 1..(i - 1) :
           ~(long[j].index = long[i].index /\ long[j].category = long[i].category)}

\* every group's cell of the pivoted table holds the value of the group's first record
CellsHoldFirst(long, table) ==
    \A i \in FirstOfGroup(long) :
       \E row \in table :
          /\ row.index = long[i].index
          /\ row.cells[long[i].category] = Num(long[i].value)

\* C10: in every pivot step (tourism guest nights and occupancy, NIWA monthly
\* tables of both NIWA scripts), when records share the key columns and the
\* category, the pivoted cell holds the value of the first of them, never their
\* sum or mean.
C10_PivotKeepsFirst ==
    /\ (script = "process_tourism_data" /\ pc = "done")
          => CellsHoldFirst(TourismLong(processed_data), result_df)
    /\ (script \in NiwaScripts /\ pc = "done" /\ niwa_error = "none")
          => CellsHoldFirst(monthly_df, monthly_pivot)

\* the same statement for the pivots that pass aggfunc='first'
C10_FirstWherePassed ==
    /\ (script = "process_tourism_data" /\ pc = "done")
          => CellsHoldFirst(TourismLong(processed_data), result_df)
    /\ (script = "process_waipuna_rangi_complete" /\ pc = "done" /\ niwa_error = "none")
          => CellsHoldFirst(monthly_df, monthly_pivot)

(***************************************************************************)
(* fix_fuel_data_processing.py: the wide fuel-type sheet                   *)
(***************************************************************************)
\* a pd.Timestamp cell
Ts(y, m, d) == [kind |-> "ts", y |-> y, m |-> m, d |-> d]

\* a text pd.to_datetime parses: taken to be exactly the texts 'YYYY-MM-DD' with
\* a month 1..12 and a day 1..31; on any other text it raises
IsoDate(s) ==
    /\ Len(s) = 10 /\ s[5] = "-" /\ s[8] = "-"
    /\ IsDigits(SubSeq(s, 1, 4)) /\ IsDigits(SubSeq(s, 6, 7)) /\ IsDigits(SubSeq(s, 9, 10))
    /\ DigitsToInt(SubSeq(s, 6, 7)) \in 1..12
    /\ DigitsToInt(SubSeq(s, 9, 10)) \in 1..31

\* pd.to_datetime(text) of a text it parses
to_datetime(s) ==
    Ts(DigitsToInt(SubSeq(s, 1, 4)), DigitsToInt(SubSeq(s, 6, 7)),
       DigitsToInt(SubSeq(s, 9, 10)))

\* pd.notna(row.iloc[0]) and 'quarter' in str(row.iloc[0]).lower()
HasQuarterLabel(row) ==
    /\ row[1].kind # "nan"
    /\ Contains(Lower(PyStr(row[1])), <<"q","u","a","r","t","e","r">>)

\* the date test accepting every text in the second cell, parsed or not
HasDateCellAnyText(row) == row[2].kind \in {"ts", "str"}

\* pd.notna(row.iloc[1]) and isinstance(row.iloc[1], (pd.Timestamp, str)) and
\* pd.to_datetime(row.iloc[1]) does not raise
HasDateCell(row) ==
    /\ row[2].kind # "nan"
    /\ row[2].kind \in {"ts", "str"}
    /\ (row[2].kind = "str" => IsoDate(row[2].s))

\* header_row_idx = None
NoneIdx == -1

\* one scan in which the first row passing either test wins
LocateHeaderRowOneScan(df) ==
    IF \E i \in 1..Len(df) : HasQuarterLabel(df[i]) \/ HasDateCell(df[i])
    THEN Min1({i \in 1..Len(df) : HasQuarterLabel(df[i]) \/ HasDateCell(df[i])}) - 1
    ELSE NoneIdx

\* the two loops over df.iterrows(), each leaving at its first hit; the second
\* runs only when the first found nothing. Row indices count from 0.
LocateHeaderRow(df) ==
    IF \E i \in 1..Len(df) : HasQuarterLabel(df[i])
    THEN Min1({i \in 1..Len(df) : HasQuarterLabel(df[i])}) - 1
    ELSE IF \E i \in 1..Len(df) : HasDateCell(df[i])
    THEN Min1({i \in 1..Len(df) : HasDateCell(df[i])}) - 1
    ELSE NoneIdx

fuel_types == << <<"H","y","d","r","o">>, <<"G","e","o","t","h","e","r","m","a","l">>,
                 <<"B","i","o","g","a","s">>, <<"W","i","n","d">>, <<"S","o","l","a","r">>,
                 <<"O","i","l">>, <<"C","o","a","l">>, <<"G","a","s">> >>

\* f"{fuel_type}_GWH" of fuel_types[k], with SOLAR renamed SOLAR_PV
FuelColumns == << "HYDRO_GWH", "GEOTHERMAL_GWH", "BIOGAS_GWH", "WIND_GWH", "SOLAR_PV_GWH",
                  "OIL_GWH", "COAL_GWH", "GAS_GWH" >>

renewable_cols == {"HYDRO_GWH", "GEOTHERMAL_GWH", "BIOGAS_GWH", "WIND_GWH", "SOLAR_PV_GWH"}

fossil_cols == {"OIL_GWH", "COAL_GWH", "GAS_GWH"}

CellPresent(cell) == cell.kind # "nan"

\* a loop over the fuels without its break: the last matching fuel is kept
FuelOfLabelLastMatch(label) ==
    IF \E k \in 1..Len(fuel_types) : Contains(Lower(Strip(PyStr(label))), Lower(fuel_types[k]))
    THEN CHOOSE k \in 1..Len(fuel_types) :
            /\ Contains(Lower(Strip(PyStr(label))), Lower(fuel_types[k]))
            /\ \A j \in (k + 1)..Len(fuel_types) :
                  ~Contains(Lower(Strip(PyStr(label))), Lower(fuel_types[j]))
    ELSE 0

\* the position in fuel_types of the first fuel whose lower-cased name is in the
\* lower-cased, stripped row label; 0 when there is none
FuelOfLabel(label) ==
    IF \E k \in 1..Len(fuel_types) : Contains(Lower(Strip(PyStr(label))), Lower(fuel_types[k]))
    THEN Min1({k \in 1..Len(fuel_types) :
                  Contains(Lower(Strip(PyStr(label))), Lower(fuel_types[k]))})
    ELSE 0

\* the rows below the header whose label names a fuel, each with the first
\* len(quarters) cells after its label
RECURSIVE FuelDataRows(_, _, _, _)
FuelDataRows(df, idx, nq, n) ==
    IF n = 0 THEN <<>>
    ELSE IF n - 1 > idx /\ df[n][1].kind # "nan" /\ FuelOfLabel(df[n][1]) # 0
    THEN Append(FuelDataRows(df, idx, nq, n - 1),
                [row_idx |-> n - 1,
                 fuel_type |-> FuelOfLabel(df[n][1]),
                 values |-> SubSeq(df[n], 2, MinOf(Len(df[n]), nq + 1))])
    ELSE FuelDataRows(df, idx, nq, n - 1)


\* the quarter is a text pd.to_datetime rejects, or a number (no .year)
QuarterRaises(quarter) ==
    \/ (quarter.kind = "str" /\ ~IsoDate(quarter.s))
    \/ quarter.kind = "num"

QuarterDate(quarter) == IF quarter.kind = "str" THEN to_datetime(quarter.s) ELSE quarter

\* float(value) succeeds: a number, or a text of digits
FloatOk(value) ==
    \/ value.kind = "num"
    \/ (value.kind = "str" /\ IsDigits(Strip(value.s)))

FloatOf(value) == IF value.kind = "num" THEN value.v ELSE DigitsToInt(Strip(value.s))

\* some fuel row holds, for this quarter, a present value float() rejects
FillRaises(rows, k) ==
    \E r \in 1..Len(rows) :
       /\ k <= Len(rows[r].values)
       /\ rows[r].values[k].kind # "nan"
       /\ ~FloatOk(rows[r].values[k])

\* record[column] after the first n fuel rows have been applied, in order
RECURSIVE FilledValue(_, _, _, _)
FilledValue(rows, k, column, n) ==
    IF n = 0 THEN 0
    ELSE IF /\ k <= Len(rows[n].values)
            /\ rows[n].values[k].kind # "nan"
            /\ FuelColumns[rows[n].fuel_type] = column
    THEN FloatOf(rows[n].values[k])
    ELSE FilledValue(rows, k, column, n - 1)

QuarterRecord(qdate, rows, k) ==
    [CALENDAR_YEAR |-> qdate.y,
     QUARTER_NUMBER |-> ((qdate.m - 1) \div 3) + 1,
     gwh |-> [c \in renewable_cols \cup fossil_cols |-> FilledValue(rows, k, c, Len(rows))]]

\* the long format: one record per quarter, a quarter that raises is skipped
RECURSIVE LongRecords(_, _, _)
LongRecords(qs, rows, n) ==
    IF n = 0 THEN <<>>
    ELSE IF QuarterRaises(qs[n]) \/ FillRaises(rows, n)
    THEN LongRecords(qs, rows, n - 1)
    ELSE Append(LongRecords(qs, rows, n - 1), QuarterRecord(QuarterDate(qs[n]), rows, n))

\* round(n / d, 0) for d > 0, halves to the even neighbour
RoundHalfEven(n, d) ==
    IF 2 * (n % d) < d THEN n \div d
    ELSE IF 2 * (n % d) > d THEN (n \div d) + 1
    ELSE IF (n \div d) % 2 = 0 THEN n \div d
    ELSE (n \div d) + 1

Pct(hundredths) == [kind |-> "pct", hundredths |-> hundredths]

Inf == [kind |-> "inf"]

\* (part / total * 100).round(2), in hundredths; a division by zero gives NaN
\* for 0/0 and an infinity otherwise
Percentage(part, total) ==
    IF total = 0 THEN (IF part = 0 THEN NaN ELSE Inf)
    ELSE IF total > 0 THEN Pct(RoundHalfEven(part * 10000, total))
    ELSE Pct(RoundHalfEven((0 - part) * 10000, 0 - total))

\* np.where(total > 0, (part / total * 100).round(2), 0)
GuardedPercentage(part, total) == IF total > 0 THEN Percentage(part, total) ELSE Pct(0)

RECURSIVE SumOver(_, _)
SumOver(f, S) ==
    IF S = {} THEN 0
    ELSE LET c == CHOOSE x \in S : TRUE IN f[c] + SumOver(f, S \ {c})

\* groupby('CALENDAR_YEAR') sum of a generation column
RECURSIVE YearSum(_, _, _, _)
YearSum(recs, year, column, n) ==
    IF n = 0 THEN 0
    ELSE YearSum(recs, year, column, n - 1)
         + (IF recs[n].CALENDAR_YEAR = year THEN recs[n].gwh[column] ELSE 0)

\* a year's row after the aggregation: the percentages are recalculated from the
\* summed totals without the zero test
YearTotals(year, gwh) ==
    [CALENDAR_YEAR |-> year,
     gwh |-> gwh,
     RENEWABLE_GWH |-> SumOver(gwh, renewable_cols),
     FOSSIL_FUEL_GWH |-> SumOver(gwh, fossil_cols),
     TOTAL_GENERATION_GWH |-> SumOver(gwh, renewable_cols) + SumOver(gwh, fossil_cols),
     RENEWABLE_PERCENTAGE |->
        Percentage(SumOver(gwh, renewable_cols),
                   SumOver(gwh, renewable_cols) + SumOver(gwh, fossil_cols)),
     FOSSIL_FUEL_PERCENTAGE |->
        Percentage(SumOver(gwh, fossil_cols),
                   SumOver(gwh, renewable_cols) + SumOver(gwh, fossil_cols))]

YearRow(recs, year) ==
    YearTotals(year, [c \in renewable_cols \cup fossil_cols |-> YearSum(recs, year, c, Len(recs))])

RecentYear == 2020

\* df_final: one row per calendar year, ascending, the years from 2020 on
YearlyFrame(recs) ==
    LET years == Ascending({y \in {recs[i].CALENDAR_YEAR : i \in 1..Len(recs)} :
                              y >= RecentYear})
    IN  [i \in 1..Len(years) |-> YearRow(recs, years[i])]


\* the rows the sheets are made of: label, then two quarter columns
FuelSheetRows ==
    { << NaN, NaN, NaN >>,
      << Str(<<"C","a","l","e","n","d","a","r"," ","Q","u","a","r","t","e","r">>),
         Ts(2019, 12, 31), Ts(2020, 3, 31) >>,
      << Str(<<"N","o","t","e","s">>), Str(<<"2","0","2","0","-","0","6","-","3","0">>), NaN >>,
      << Str(<<"q","u","a","r","t","e","r","l","y">>), Str(<<"n","/","a">>),
         Str(<<"2","0","2","1","-","0","3","-","3","1">>) >>,
      << Str(<<"H","y","d","r","o">>), Num(0), Num(0) >>,
      << Str(<<"B","i","o","g","a","s">>), Str(<<"x">>), Num(3) >>,
      << Str(<<" ","G","a","s"," ">>), NaN, Num(1) >>,
      << Str(<<"G","A","S","/","C","O","A","L">>), Num(2), Num(4) >>,
      << Num(7), Num(2020), NaN >>,
      << NaN, Ts(2020, 6, 30), Num(5) >> }

MaxSheetRows == 3

SeqsUpTo(S, n) == UNION {[1..k -> S] : k \in 1..n}

InitFuelType ==
    /\ script = "fix_fuel_data_processing"
    /\ pc = "start"
    /\ IdleMaritime /\ IdleEvents /\ IdleTourism
    /\ IdleNiwa /\ IdleQuarterly /\ IdleFuelFixed /\ IdleTideFetch /\ IdleTideProc
    /\ IdleAirfares /\ IdleNiwaRuns /\ IdleDisk /\ IdleWaipuna /\ IdleTourismMain
    /\ IdleEventMain /\ IdleFuelTables /\ IdleEventDates
    /\ fuel_df \in SeqsUpTo(FuelSheetRows, MaxSheetRows)
    /\ header_row_idx = NoneIdx
    /\ fuel_quarters = <<>>
    /\ fuel_data_rows = <<>>
    /\ fuel_records = <<>>
    /\ df_final = <<>>
    /\ fuel_error = "none"

\* the search for the header row; without one the function returns None
FindHeaderRow ==
    /\ script = "fix_fuel_data_processing"
    /\ pc = "start"
    /\ header_row_idx' = LocateHeaderRow(fuel_df)
    /\ pc' = IF header_row_idx' = NoneIdx THEN "done" ELSE "header"
    /\ UNCHANGED << script, fuel_df, fuel_quarters, fuel_data_rows, fuel_records,
                    df_final, fuel_error,
                    maritimeVars, eventVars, tourismVars,
                    niwaVars, quarterlyVars, fuelFixedVars, tideFetchVars,
                    tideProcVars, airfareVars, niwaRunVars, diskVars, waipunaVars,
                    tourismMainVars, eventMainVars, fuelTableVars, eventDateVars >>

\* quarters = df.iloc[header_row_idx, 1:].dropna(), and the fuel rows below the
\* header row
FindFuelRows ==
    /\ script = "fix_fuel_data_processing"
    /\ pc = "header"
    /\ fuel_quarters' = SelectSeq(Tail(fuel_df[header_row_idx + 1]), CellPresent)
    /\ fuel_data_rows' = FuelDataRows(fuel_df, header_row_idx, Len(fuel_quarters'),
                                      Len(fuel_df))
    /\ pc' = "rows"
    /\ UNCHANGED << script, fuel_df, header_row_idx, fuel_records, df_final, fuel_error,
                    maritimeVars, eventVars, tourismVars,
                    niwaVars, quarterlyVars, fuelFixedVars, tideFetchVars,
                    tideProcVars, airfareVars, niwaRunVars, diskVars, waipunaVars,
                    tourismMainVars, eventMainVars, fuelTableVars, eventDateVars >>

\* the transformation to long format
TransformToLong ==
    /\ script = "fix_fuel_data_processing"
    /\ pc = "rows"
    /\ fuel_records' = LongRecords(fuel_quarters, fuel_data_rows, Len(fuel_quarters))
    /\ pc' = "long"
    /\ UNCHANGED << script, fuel_df, header_row_idx, fuel_quarters, fuel_data_rows,
                    df_final, fuel_error,
                    maritimeVars, eventVars, tourismVars,
                    niwaVars, quarterlyVars, fuelFixedVars, tideFetchVars,
                    tideProcVars, airfareVars, niwaRunVars, diskVars, waipunaVars,
                    tourismMainVars, eventMainVars, fuelTableVars, eventDateVars >>

\* totals, percentages, the yearly aggregation and the file written; a frame
\* without records has no columns and the totals raise KeyError
AggregateYears ==
    /\ script = "fix_fuel_data_processing"
    /\ pc = "long"
    /\ IF fuel_records = <<>>
       THEN fuel_error' = "KeyError" /\ UNCHANGED df_final
       ELSE /\ df_final' = YearlyFrame(fuel_records)
            /\ UNCHANGED fuel_error
    /\ pc' = "done"
    /\ UNCHANGED << script, fuel_df, header_row_idx, fuel_quarters, fuel_data_rows,
                    fuel_records,
                    maritimeVars, eventVars, tourismVars,
                    niwaVars, quarterlyVars, fuelFixedVars, tideFetchVars,
                    tideProcVars, airfareVars, niwaRunVars, diskVars, waipunaVars,
                    tourismMainVars, eventMainVars, fuelTableVars, eventDateVars >>

NextFuelType == FindHeaderRow \/ FindFuelRows \/ TransformToLong \/ AggregateYears

HeaderLocated == script = "fix_fuel_data_processing" /\ pc # "start"

\* the first cell of a row holds the marker keyword, whatever the case
MarkerInFirstCell(row) ==
    /\ row[1].kind = "str"
    /\ \E i \in 1..Len(row[1].s) :
          /\ i + 6 <= Len(row[1].s)
          /\ Lower(SubSeq(row[1].s, i, i + 6)) = <<"q","u","a","r","t","e","r">>

\* C4: when some row's first cell contains 'quarter' (case-insensitive), the
\* header row located is the topmost such row.
C4_FirstKeywordRow ==
    HeaderLocated =>
       \A i \in 1..Len(fuel_df) :
          (MarkerInFirstCell(fuel_df[i])
             /\ \A j \in 1..(i - 1) : ~MarkerInFirstCell(fuel_df[j]))
          => header_row_idx = i - 1

\* a keyword row lies below a row that only has a date, and is the one located
C4_Witness ==
    /\ HeaderLocated
    /\ Len(fuel_df) = 3
    /\ ~MarkerInFirstCell(fuel_df[1]) /\ fuel_df[1][2].kind = "ts"
    /\ ~MarkerInFirstCell(fuel_df[2])
    /\ MarkerInFirstCell(fuel_df[3])
    /\ header_row_idx = 2

\* the second cell is a timestamp or a text that reads as a date
DateInSecondCell(row) ==
    \/ row[2].kind = "ts"
    \/ (row[2].kind = "str" /\ IsoDate(row[2].s))

\* C5 as stated: the header row located is the topmost row whose first cell
\* contains the keyword or whose second cell is parseable as a date.
C5_TopmostEitherCondition ==
    HeaderLocated =>
       \A i \in 1..Len(fuel_df) :
          ((MarkerInFirstCell(fuel_df[i]) \/ DateInSecondCell(fuel_df[i]))
             /\ \A j \in 1..(i - 1) :
                   ~(MarkerInFirstCell(fuel_df[j]) \/ DateInSecondCell(fuel_df[j])))
          => header_row_idx = i - 1

\* C5 amended: the header row located is the topmost row whose first cell
\* contains the keyword when there is one; otherwise it is the topmost row whose
\* second cell is a timestamp or a text parseable as a date; otherwise none.
C5_KeywordRowsBeforeDateRows ==
    HeaderLocated =>
       /\ \A i \in 1..Len(fuel_df) :
             (MarkerInFirstCell(fuel_df[i])
                /\ \A j \in 1..(i - 1) : ~MarkerInFirstCell(fuel_df[j]))
             => header_row_idx = i - 1
       /\ \A i \in 1..Len(fuel_df) :
             ((\A j \in 1..Len(fuel_df) : ~MarkerInFirstCell(fuel_df[j]))
                /\ DateInSecondCell(fuel_df[i])
                /\ \A j \in 1..(i - 1) : ~DateInSecondCell(fuel_df[j]))
             => header_row_idx = i - 1
       /\ (\A j \in 1..Len(fuel_df) :
              ~MarkerInFirstCell(fuel_df[j]) /\ ~DateInSecondCell(fuel_df[j]))
          => header_row_idx = NoneIdx

\* no keyword row: the date row below a row with a number and a row with a text
\* that is no date is the one located
C5_Witness ==
    /\ HeaderLocated
    /\ Len(fuel_df) = 3
    /\ \A j \in 1..3 : ~MarkerInFirstCell(fuel_df[j])
    /\ fuel_df[1][2].kind = "num"
    /\ fuel_df[2][2].kind = "nan"
    /\ DateInSecondCell(fuel_df[3])
    /\ header_row_idx = 2

(***************************************************************************)
(* fix_quarterly_data.py, process_and_load_electricity.py and              *)
(* simple_electricity_processing.py: quarterly generation, year over year  *)
(***************************************************************************)
QuarterRec(year, quarter_num, gen_gwh) ==
    [QUARTER_YEAR |-> year, QUARTER_NUMBER |-> quarter_num, NET_GENERATION_GWH |-> gen_gwh]

\* fix_quarterly_data.py: zip(quarter_dates, generation_values), a record per
\* pair with a usable date and a present value; a pair that raises is skipped
RECURSIVE FixedRecords(_, _, _)
FixedRecords(quarter_dates, generation_values, n) ==
    IF n = 0 THEN <<>>
    ELSE IF \/ QuarterRaises(quarter_dates[n])
            \/ generation_values[n].kind = "nan"
            \/ ~FloatOk(generation_values[n])
    THEN FixedRecords(quarter_dates, generation_values, n - 1)
    ELSE Append(FixedRecords(quarter_dates, generation_values, n - 1),
                QuarterRec(QuarterDate(quarter_dates[n]).y,
                           ((QuarterDate(quarter_dates[n]).m - 1) \div 3) + 1,
                           FloatOf(generation_values[n])))

\* quarter_dates = df.iloc[8, 1:].dropna();
\* generation_values = df.iloc[10, 1:len(quarter_dates)+1]
process_quarterly_records(sheet) ==
    FixedRecords(SelectSeq(sheet.quarter_row, CellPresent),
                 sheet.generation_row,
                 MinOf(Len(SelectSeq(sheet.quarter_row, CellPresent)),
                       Len(sheet.generation_row)))

\* process_and_load_electricity.py: pd.notna(row.iloc[0]) and 'generation' in
\* str(row.iloc[0]).lower()
HasGenerationLabel(row) ==
    /\ row[1].kind # "nan"
    /\ Contains(Lower(PyStr(row[1])), <<"g","e","n","e","r","a","t","i","o","n">>)

\* the first row labelled 'generation', else the first row with a present
\* second cell, else None; from 0
GenerationRow(df) ==
    IF \E i \in 1..Len(df) : HasGenerationLabel(df[i])
    THEN Min1({i \in 1..Len(df) : HasGenerationLabel(df[i])}) - 1
    ELSE IF \E i \in 1..Len(df) : df[i][2].kind # "nan"
    THEN Min1({i \in 1..Len(df) : df[i][2].kind # "nan"}) - 1
    ELSE NoneIdx

base_year == 1974

\* the i-th value left by dropna() is quarter (i % 4) + 1 of year 1974 + i // 4
RECURSIVE OffsetRecords(_, _)
OffsetRecords(gen_data, n) ==
    IF n = 0 THEN <<>>
    ELSE Append(OffsetRecords(gen_data, n - 1),
                QuarterRec(base_year + ((n - 1) \div 4), ((n - 1) % 4) + 1,
                           FloatOf(gen_data[n])))

\* float(value) raises on some value of the generation row
GenDataRaises(gen_data) == \E i \in 1..Len(gen_data) : ~FloatOk(gen_data[i])

\* simple_electricity_processing.py: round(10000 * seasonal_factor *
\* (1 + (year - 2022) * 0.02), 2) for 2022..2024, seasonal factors 0.95, 1.02,
\* 1.05, 0.98
SampleGeneration(year, quarter) ==
    (<<9500, 10200, 10500, 9800>>[quarter] * (100 + (year - 2022) * 2)) \div 100

SampleQuarters ==
    [i \in 1..12 |-> QuarterRec(2022 + ((i - 1) \div 4), ((i - 1) % 4) + 1,
                                SampleGeneration(2022 + ((i - 1) \div 4), ((i - 1) % 4) + 1))]

\* the sort key of sort_values(['QUARTER_YEAR', 'QUARTER_NUMBER'])
KeyAtMost(a, b) ==
    \/ a.QUARTER_YEAR < b.QUARTER_YEAR
    \/ (a.QUARTER_YEAR = b.QUARTER_YEAR /\ a.QUARTER_NUMBER <= b.QUARTER_NUMBER)

\* rec placed after the records of the sorted frame whose key is not greater
InsertSorted(sorted, rec) ==
    SelectSeq(sorted, LAMBDA x : KeyAtMost(x, rec)) \o <<rec>>
       \o SelectSeq(sorted, LAMBDA x : ~KeyAtMost(x, rec))

\* the stable sort of the first n records
RECURSIVE SortValues(_, _)
SortValues(recs, n) ==
    IF n = 0 THEN <<>> ELSE InsertSorted(SortValues(recs, n - 1), recs[n])

Yoy(e4) == [kind |-> "yoy", e4 |-> e4]

\* (value / prior - 1) * 100 rounded to 4 decimals, in units of 0.0001
PercentChange(value, prior) ==
    IF prior = 0 THEN (IF value = 0 THEN NaN ELSE Inf)
    ELSE IF prior > 0 THEN Yoy(RoundHalfEven((value - prior) * 1000000, prior))
    ELSE Yoy(RoundHalfEven((prior - value) * 1000000, 0 - prior))

\* the rows of the frame in the group of row i, up to row i, in frame order
GroupBefore(df, i) ==
    Ascending({j \in 1..i : df[j].QUARTER_NUMBER = df[i].QUARTER_NUMBER})

\* pct_change(periods) on the whole column: the row `periods` rows before
PctChangeColumn(df, i, periods) ==
    IF i <= periods THEN NaN
    ELSE PercentChange(df[i].NET_GENERATION_GWH, df[i - periods].NET_GENERATION_GWH)

\* groupby('QUARTER_NUMBER')[...].pct_change(periods): the row `periods` rows
\* before within the group of row i
PctChangeInGroup(df, i, periods) ==
    IF Len(GroupBefore(df, i)) <= periods THEN NaN
    ELSE PercentChange(df[i].NET_GENERATION_GWH,
                       df[GroupBefore(df, i)[Len(GroupBefore(df, i)) - periods]]
                          .NET_GENERATION_GWH)

WithYoy(rec, yoy) ==
    [QUARTER_YEAR |-> rec.QUARTER_YEAR, QUARTER_NUMBER |-> rec.QUARTER_NUMBER,
     NET_GENERATION_GWH |-> rec.NET_GENERATION_GWH,
     YEAR_OVER_YEAR_CHANGE_PERCENT |-> yoy]

\* the change against the row 4 rows before in the whole frame
YearOverYearUngrouped(sorted) ==
    [i \in 1..Len(sorted) |-> WithYoy(sorted[i], PctChangeColumn(sorted, i, 4))]

\* df.groupby('QUARTER_NUMBER')['NET_GENERATION_GWH'].pct_change(4) * 100, rounded
YearOverYear(sorted) ==
    [i \in 1..Len(sorted) |-> WithYoy(sorted[i], PctChangeInGroup(sorted, i, 4))]


QuarterlyScripts ==
    {"fix_quarterly_data", "process_and_load_electricity", "simple_electricity_processing"}

MaxQuarters == 20

SeriesShapes == {"flat", "growth", "zero_start"}

\* the generation of the quarter at offset i (from 0) of a series
SeriesValue(shape, i) ==
    IF shape = "flat" THEN 100
    ELSE IF shape = "growth" THEN 100 + 10 * (i \div 4) + (i % 4)
    ELSE IF i < 4 THEN 0 ELSE 50 + (i \div 4)

\* n generation cells, cell g missing or a text that is no number
GenerationCells(shape, n, defect, g) ==
    [i \in 1..n |->
        IF i = g /\ defect = "value_nan" THEN NaN
        ELSE IF i = g /\ defect = "value_text" THEN Str(<<"x">>)
        ELSE Num(SeriesValue(shape, i - 1))]

QuarterEnd(year, quarter) ==
    Ts(year, 3 * quarter, IF quarter \in {1, 4} THEN 31 ELSE 30)

\* n quarter-end dates from the first quarter of year y0, cell g missing, a text
\* that is no date, or the date of the quarter before
QuarterCells(y0, n, defect, g) ==
    [i \in 1..n |->
        IF i = g /\ defect = "date_nan" THEN NaN
        ELSE IF i = g /\ defect = "date_text" THEN Str(<<"n","/","a">>)
        ELSE IF i = g /\ defect = "date_repeat" /\ i > 1
        THEN QuarterEnd(y0 + ((i - 2) \div 4), ((i - 2) % 4) + 1)
        ELSE QuarterEnd(y0 + ((i - 1) \div 4), ((i - 1) % 4) + 1)]

\* rows 8 and 10 of the sheet of fix_quarterly_data.py, from column 1
FixedSheets ==
    {[quarter_row |-> QuarterCells(y0, n, "none", 0),
      generation_row |-> GenerationCells(shape, n, "none", 0)] :
        y0 \in {1999, 2000}, n \in 1..MaxQuarters, shape \in SeriesShapes}
    \cup
    UNION {{[quarter_row |-> QuarterCells(2000, n, defect, g),
             generation_row |-> GenerationCells("growth", n, defect, g)] :
               g \in 1..n,
               defect \in {"value_nan", "value_text", "date_nan", "date_text",
                           "date_repeat"}} : n \in 1..MaxQuarters}

\* the sheets of process_and_load_electricity.py: the generation row, alone or
\* below a row of notes
LoadedSheets ==
    UNION {{<< <<label>> \o GenerationCells(shape, n, "none", 0) >>,
            << <<Str(<<"N","o","t","e","s">>)>> \o [i \in 1..n |-> NaN],
               <<label>> \o GenerationCells(shape, n, "none", 0) >>} :
              label \in {NaN, Str(<<"N","e","t"," ","G","e","n","e","r","a","t","i","o","n">>)},
              shape \in SeriesShapes, n \in 1..MaxQuarters}
    \cup
    UNION {{<< <<label>> \o GenerationCells("growth", n, defect, g) >> :
               label \in {NaN, Str(<<"N","e","t"," ","G","e","n","e","r","a","t","i","o","n">>)},
               g \in 1..n,
               defect \in {"value_nan", "value_text"}} : n \in 1..MaxQuarters}

\* datetime.now().year
CurrentYears == {2025, 2026}

InitQuarterly ==
    /\ script \in QuarterlyScripts
    /\ pc = "start"
    /\ IdleMaritime /\ IdleEvents /\ IdleTourism
    /\ IdleNiwa /\ IdleFuelType /\ IdleFuelFixed /\ IdleTideFetch /\ IdleTideProc
    /\ IdleAirfares /\ IdleNiwaRuns /\ IdleDisk /\ IdleWaipuna /\ IdleTourismMain
    /\ IdleEventMain /\ IdleFuelTables /\ IdleEventDates
    /\ quarterly_sheet \in
          IF script = "fix_quarterly_data" THEN FixedSheets
          ELSE IF script = "process_and_load_electricity" THEN LoadedSheets
          ELSE {<<>>}
    /\ df_quarterly = <<>>
    /\ quarterly_out = <<>>
    /\ quarterly_error = "none"

\* process_quarterly_data_fixed: the records of the sheet
CreateFixedRecords ==
    /\ script = "fix_quarterly_data"
    /\ pc = "start"
    /\ df_quarterly' = process_quarterly_records(quarterly_sheet)
    /\ pc' = "records"
    /\ UNCHANGED << script, quarterly_sheet, quarterly_out, quarterly_error,
                    maritimeVars, eventVars, tourismVars,
                    niwaVars, fuelTypeVars, fuelFixedVars, tideFetchVars, tideProcVars,
                    airfareVars, niwaRunVars, diskVars, waipunaVars, tourismMainVars,
                    eventMainVars, fuelTableVars, eventDateVars >>

\* process_quarterly_data: the generation row is found and turned into records;
\* without such a row the function returns None; float() is not guarded
CreateOffsetRecords ==
    /\ script = "process_and_load_electricity"
    /\ pc = "start"
    /\ IF GenerationRow(quarterly_sheet) = NoneIdx
       THEN pc' = "done" /\ UNCHANGED << df_quarterly, quarterly_error >>
       ELSE IF GenDataRaises(SelectSeq(Tail(quarterly_sheet[GenerationRow(quarterly_sheet) + 1]),
                                       CellPresent))
       THEN pc' = "done" /\ quarterly_error' = "ValueError" /\ UNCHANGED df_quarterly
       ELSE /\ df_quarterly' =
                  OffsetRecords(SelectSeq(Tail(quarterly_sheet[GenerationRow(quarterly_sheet) + 1]),
                                          CellPresent),
                                Len(SelectSeq(Tail(quarterly_sheet[GenerationRow(quarterly_sheet) + 1]),
                                              CellPresent)))
            /\ pc' = "records"
            /\ UNCHANGED quarterly_error
    /\ UNCHANGED << script, quarterly_sheet, quarterly_out,
                    maritimeVars, eventVars, tourismVars,
                    niwaVars, fuelTypeVars, fuelFixedVars, tideFetchVars, tideProcVars,
                    airfareVars, niwaRunVars, diskVars, waipunaVars, tourismMainVars,
                    eventMainVars, fuelTableVars, eventDateVars >>

\* create_sample_quarterly_data: the twelve sample quarters
CreateSampleRecords ==
    /\ script = "simple_electricity_processing"
    /\ pc = "start"
    /\ df_quarterly' = SampleQuarters
    /\ pc' = "records"
    /\ UNCHANGED << script, quarterly_sheet, quarterly_out, quarterly_error,
                    maritimeVars, eventVars, tourismVars,
                    niwaVars, fuelTypeVars, fuelFixedVars, tideFetchVars, tideProcVars,
                    airfareVars, niwaRunVars, diskVars, waipunaVars, tourismMainVars,
                    eventMainVars, fuelTableVars, eventDateVars >>

\* the year-over-year stage: sort, then the change per quarter number; a frame
\* without records has no columns and sort_values raises KeyError
YearOverYearStage ==
    /\ script \in QuarterlyScripts
    /\ pc = "records"
    /\ IF df_quarterly = <<>>
       THEN pc' = "done" /\ quarterly_error' = "KeyError" /\ UNCHANGED df_quarterly
       ELSE /\ df_quarterly' = YearOverYear(SortValues(df_quarterly, Len(df_quarterly)))
            /\ pc' = "yoy"
            /\ UNCHANGED quarterly_error
    /\ UNCHANGED << script, quarterly_sheet, quarterly_out,
                    maritimeVars, eventVars, tourismVars,
                    niwaVars, fuelTypeVars, fuelFixedVars, tideFetchVars, tideProcVars,
                    airfareVars, niwaRunVars, diskVars, waipunaVars, tourismMainVars,
                    eventMainVars, fuelTableVars, eventDateVars >>

RecentQuarter(rec, current_year) == rec.QUARTER_YEAR >= current_year - 25

\* the file written: fix_quarterly_data.py keeps the last 25 years
SaveQuarterly ==
    /\ script \in QuarterlyScripts
    /\ pc = "yoy"
    /\ IF script = "fix_quarterly_data"
       THEN \E current_year \in CurrentYears :
               quarterly_out' = SelectSeq(df_quarterly,
                                          LAMBDA rec : RecentQuarter(rec, current_year))
       ELSE quarterly_out' = df_quarterly
    /\ pc' = "done"
    /\ UNCHANGED << script, quarterly_sheet, df_quarterly, quarterly_error,
                    maritimeVars, eventVars, tourismVars,
                    niwaVars, fuelTypeVars, fuelFixedVars, tideFetchVars, tideProcVars,
                    airfareVars, niwaRunVars, diskVars, waipunaVars, tourismMainVars,
                    eventMainVars, fuelTableVars, eventDateVars >>

NextQuarterly ==
    \/ CreateFixedRecords
    \/ CreateOffsetRecords
    \/ CreateSampleRecords
    \/ YearOverYearStage
    \/ SaveQuarterly


\* the year-over-year column has been computed
YoyComputed ==
    /\ script \in QuarterlyScripts
    /\ pc \in {"yoy", "done"}
    /\ quarterly_error = "none"
    /\ df_quarterly # <<>>

RowsOfQuarter(q) == {i \in 1..Len(df_quarterly) : df_quarterly[i].QUARTER_NUMBER = q}

YearsOfQuarter(q) == {df_quarterly[i].QUARTER_YEAR : i \in RowsOfQuarter(q)}

\* quarter number q has one record per year over consecutive years
OnePerConsecutiveYear(q) ==
    /\ RowsOfQuarter(q) # {}
    /\ Cardinality(YearsOfQuarter(q)) = Cardinality(RowsOfQuarter(q))
    /\ \A y \in Min1(YearsOfQuarter(q))..Max1(YearsOfQuarter(q)) : y \in YearsOfQuarter(q)

Abs(x) == IF x < 0 THEN 0 - x ELSE x

\* yoy is ((value / prior) - 1) * 100 rounded to 4 decimals: the nearest multiple
\* of 0.0001, and what the division by zero leaves when prior is 0
IsPercentChange(yoy, value, prior) ==
    IF prior = 0 THEN yoy = (IF value = 0 THEN NaN ELSE Inf)
    ELSE /\ yoy.kind = "yoy"
         /\ 2 * Abs(yoy.e4 * prior - (value - prior) * 1000000) <= Abs(prior)

C3_AgainstPrecedingYear ==
    YoyComputed =>
       \A i \in 1..Len(df_quarterly) :
          /\ \A j \in 1..Len(df_quarterly) :
                (/\ df_quarterly[j].QUARTER_NUMBER = df_quarterly[i].QUARTER_NUMBER
                 /\ df_quarterly[j].QUARTER_YEAR = df_quarterly[i].QUARTER_YEAR - 1)
                => IsPercentChange(df_quarterly[i].YEAR_OVER_YEAR_CHANGE_PERCENT,
                                   df_quarterly[i].NET_GENERATION_GWH,
                                   df_quarterly[j].NET_GENERATION_GWH)
          /\ df_quarterly[i].YEAR_OVER_YEAR_CHANGE_PERCENT = NaN
                => \A j \in 1..(i - 1) :
                      df_quarterly[j].QUARTER_NUMBER # df_quarterly[i].QUARTER_NUMBER

(***************************************************************************)
(* process_fuel_data_fixed.py: the fuel sheet read by position              *)
(***************************************************************************)
\* the row survives dropna(subset=['YEAR']), the conversion of YEAR and the
\* bounds 1974 <= YEAR <= 2030
ValidYear(row) ==
    /\ row.YEAR.kind # "nan"
    /\ to_numeric_coerce(row.YEAR).kind = "num"
    /\ to_numeric_coerce(row.YEAR).v >= 1974
    /\ to_numeric_coerce(row.YEAR).v <= 2030

\* pd.to_numeric(df[col], errors='coerce').fillna(0) of a column the sheet has;
\* a column the sheet lacks is left out of the sums
FuelValue(row, k) ==
    IF k > Len(row.fuels) THEN 0
    ELSE IF to_numeric_coerce(row.fuels[k]).kind = "num" THEN to_numeric_coerce(row.fuels[k]).v
    ELSE 0

FixedGwh(row) ==
    [c \in {FuelColumns[k] : k \in 1..MinOf(Len(row.fuels), Len(FuelColumns))} |->
        FuelValue(row, CHOOSE k \in 1..Len(FuelColumns) : FuelColumns[k] = c)]

\* the output row: totals, percentages behind the test total > 0
FixedRow(row, gwh) ==
    [CALENDAR_YEAR |-> to_numeric_coerce(row.YEAR).v,
     gwh |-> gwh,
     RENEWABLE_GWH |-> SumOver(gwh, renewable_cols \cap DOMAIN gwh),
     FOSSIL_FUEL_GWH |-> SumOver(gwh, fossil_cols \cap DOMAIN gwh),
     TOTAL_GENERATION_GWH |->
        SumOver(gwh, renewable_cols \cap DOMAIN gwh) + SumOver(gwh, fossil_cols \cap DOMAIN gwh),
     RENEWABLE_PERCENTAGE |->
        GuardedPercentage(SumOver(gwh, renewable_cols \cap DOMAIN gwh),
                          SumOver(gwh, renewable_cols \cap DOMAIN gwh)
                             + SumOver(gwh, fossil_cols \cap DOMAIN gwh)),
     FOSSIL_FUEL_PERCENTAGE |->
        GuardedPercentage(SumOver(gwh, fossil_cols \cap DOMAIN gwh),
                          SumOver(gwh, renewable_cols \cap DOMAIN gwh)
                             + SumOver(gwh, fossil_cols \cap DOMAIN gwh))]

\* rec placed after the rows of the sorted frame whose year is not greater
InsertByYear(sorted, rec) ==
    SelectSeq(sorted, LAMBDA x : x.CALENDAR_YEAR <= rec.CALENDAR_YEAR) \o <<rec>>
       \o SelectSeq(sorted, LAMBDA x : x.CALENDAR_YEAR > rec.CALENDAR_YEAR)

\* the rows with a valid year from current_year - 20 on, sorted by year
RECURSIVE FixedFrame(_, _, _)
FixedFrame(df, current_year, n) ==
    IF n = 0 THEN <<>>
    ELSE IF ValidYear(df[n]) /\ to_numeric_coerce(df[n].YEAR).v >= current_year - 20
    THEN InsertByYear(FixedFrame(df, current_year, n - 1), FixedRow(df[n], FixedGwh(df[n])))
    ELSE FixedFrame(df, current_year, n - 1)

FixedYearCells ==
    {NaN, Str(<<"Y","e","a","r">>), Str(<<"2","0","1","0">>), Num(1973), Num(2005), Num(2020)}

\* the cells of columns 3 to 10 of a row; sheets with fewer columns have fewer
FixedFuelCells ==
    { << Num(0), Num(0), Num(0), Num(0), Num(0), Num(0), Num(0), Num(0) >>,
      << NaN, NaN, NaN, NaN, NaN, NaN, NaN, NaN >>,
      << Num(30), Num(10), NaN, Num(0), Str(<<"x">>), Num(5), Num(0), Num(15) >>,
      << Num(1), Num(0), Num(0), Num(0), Num(1), Num(0), Num(0), Num(1) >>,
      << Num(5), Num(0), Num(0), Num(0), Num(0), Num(-5), Num(0), Num(0) >>,
      << Num(7), Num(0), Num(0) >>,
      << >> }

FixedSheetRows == {[YEAR |-> y, fuels |-> f] : y \in FixedYearCells, f \in FixedFuelCells}

MaxFixedRows == 2

InitFuelFixed ==
    /\ script = "process_fuel_data_fixed"
    /\ pc = "start"
    /\ IdleMaritime /\ IdleEvents /\ IdleTourism
    /\ IdleNiwa /\ IdleFuelType /\ IdleQuarterly /\ IdleTideFetch /\ IdleTideProc
    /\ IdleAirfares /\ IdleNiwaRuns /\ IdleDisk /\ IdleWaipuna /\ IdleTourismMain
    /\ IdleEventMain /\ IdleFuelTables /\ IdleEventDates
    /\ fixed_df \in SeqsUpTo(FixedSheetRows, MaxFixedRows)
    /\ fixed_final = <<>>

\* process_fuel_data_fixed: the whole function, the file written included
ProcessFuelDataFixed ==
    /\ script = "process_fuel_data_fixed"
    /\ pc = "start"
    /\ \E current_year \in CurrentYears :
          fixed_final' = FixedFrame(fixed_df, current_year, Len(fixed_df))
    /\ pc' = "done"
    /\ UNCHANGED << script, fixed_df,
                    maritimeVars, eventVars, tourismVars,
                    niwaVars, fuelTypeVars, quarterlyVars, tideFetchVars, tideProcVars,
                    airfareVars, niwaRunVars, diskVars, waipunaVars, tourismMainVars,
                    eventMainVars, fuelTableVars, eventDateVars >>

\* the rows written by the script that has run
FuelOutputRows ==
    IF script = "fix_fuel_data_processing" /\ pc = "done" THEN df_final
    ELSE IF script = "process_fuel_data_fixed" /\ pc = "done" THEN fixed_final
    ELSE <<>>

ZeroPercentages(row) ==
    /\ row.RENEWABLE_PERCENTAGE = Pct(0)
    /\ row.FOSSIL_FUEL_PERCENTAGE = Pct(0)

\* C1: in every output row of process_fuel_data_fixed and of
\* process_fuel_type_data_corrected, a renewable total plus fossil total of 0
\* comes with both percentages 0, never NaN.
C1_ZeroTotalZeroPercent ==
    \A i \in 1..Len(FuelOutputRows) :
       FuelOutputRows[i].RENEWABLE_GWH + FuelOutputRows[i].FOSSIL_FUEL_GWH = 0
       => ZeroPercentages(FuelOutputRows[i])

\* the same for the rows of process_fuel_data_fixed alone
C1_FixedZeroTotal ==
    (script = "process_fuel_data_fixed" /\ pc = "done") =>
       \A i \in 1..Len(fixed_final) :
          fixed_final[i].RENEWABLE_GWH + fixed_final[i].FOSSIL_FUEL_GWH = 0
          => ZeroPercentages(fixed_final[i])

\* process_fuel_data_fixed has written a row whose totals are 0
C1_FixedZeroRow ==
    /\ script = "process_fuel_data_fixed" /\ pc = "done"
    /\ \E i \in 1..Len(fixed_final) :
          /\ fixed_final[i].TOTAL_GENERATION_GWH = 0
          /\ "HYDRO_GWH" \in DOMAIN fixed_final[i].gwh
          /\ fixed_final[i].gwh["HYDRO_GWH"] = 5

(***************************************************************************)
(* fetch_tide_data.py: the download loop over the (city, year) pairs       *)
(***************************************************************************)
\* cities = [...]
cities == << "Auckland", "Wellington", "Tauranga", "Lyttelton", "Dunedin", "Napier" >>

\* years = [2024, 2025, 2026]
years == << 2024, 2025, 2026 >>

\* what one pass through the try block does: it runs to its end, requests.get
\* or raise_for_status raises a RequestException, or another statement (the
\* open or the write of the file) raises
TideOutcomes == {"ok", "RequestException", "Exception"}

\* downloaded += 1 is reached only when nothing in the try block raised
DownloadedAfter(outcome, count) == IF outcome = "ok" THEN count + 1 ELSE count

\* a loop that counts a failure only in its first except clause
FailedAfterRequestOnly(outcome, count) ==
    IF outcome = "RequestException" THEN count + 1 ELSE count

\* failed += 1 in both except clauses
FailedAfter(outcome, count) ==
    IF outcome \in {"RequestException", "Exception"} THEN count + 1 ELSE count

\* for city in cities: for year in years: the position after the current pair
NextTideIndex(idx) ==
    IF idx[2] < Len(years) THEN << idx[1], idx[2] + 1 >> ELSE << idx[1] + 1, 1 >>

InitTideFetch ==
    /\ script = "fetch_tide_data"
    /\ pc = "loop"
    /\ IdleMaritime /\ IdleEvents /\ IdleTourism /\ IdleNiwa /\ IdleFuelType
    /\ IdleQuarterly /\ IdleFuelFixed /\ IdleTideProc /\ IdleAirfares /\ IdleNiwaRuns
    /\ IdleDisk /\ IdleWaipuna /\ IdleTourismMain /\ IdleEventMain /\ IdleFuelTables
    /\ IdleEventDates
    /\ tide_index = << 1, 1 >>
    /\ tide_requests = << >>
    /\ tide_saved = {}
    /\ downloaded = 0
    /\ failed = 0
    /\ tide_sleeps = 0

\* one pass through the body of the inner loop
AttemptDownload ==
    /\ script = "fetch_tide_data"
    /\ pc = "loop"
    /\ tide_index[1] <= Len(cities)
    /\ \E outcome \in TideOutcomes :
          LET pair == << cities[tide_index[1]], years[tide_index[2]] >> IN
          /\ tide_requests' = Append(tide_requests, pair)
          /\ tide_saved' = IF outcome = "ok" THEN tide_saved \cup {pair} ELSE tide_saved
          /\ downloaded' = DownloadedAfter(outcome, downloaded)
          /\ failed' = FailedAfter(outcome, failed)
          /\ tide_sleeps' = IF outcome = "ok" THEN tide_sleeps + 1 ELSE tide_sleeps
    /\ tide_index' = NextTideIndex(tide_index)
    /\ UNCHANGED << script, pc,
                    maritimeVars, eventVars, tourismVars, niwaVars, fuelTypeVars,
                    quarterlyVars, fuelFixedVars, tideProcVars, airfareVars,
                    niwaRunVars, diskVars, waipunaVars, tourismMainVars, eventMainVars,
                    fuelTableVars, eventDateVars >>

\* both loops are exhausted: the summary is printed
TideSummary ==
    /\ script = "fetch_tide_data"
    /\ pc = "loop"
    /\ tide_index[1] > Len(cities)
    /\ pc' = "done"
    /\ UNCHANGED << script, tideFetchVars,
                    maritimeVars, eventVars, tourismVars, niwaVars, fuelTypeVars,
                    quarterlyVars, fuelFixedVars, tideProcVars, airfareVars,
                    niwaRunVars, diskVars, waipunaVars, tourismMainVars, eventMainVars,
                    fuelTableVars, eventDateVars >>

NextTideFetch == AttemptDownload \/ TideSummary

\* the n-th pair in city-major, then year, order
PairInOrder(n) == << cities[((n - 1) \div 3) + 1], years[((n - 1) % 3) + 1] >>

\* C11: the pairs are requested once each in city-major then year order,
\* whatever earlier attempts did; every attempt is counted once, as downloaded
\* exactly when its file was written; when the loop ends all 18 pairs have
\* been attempted and downloaded + failed = 18.
C11_EachPairOnceInOrder ==
    script = "fetch_tide_data" =>
        /\ \A n \in 1..Len(tide_requests) : tide_requests[n] = PairInOrder(n)
        /\ downloaded + failed = Len(tide_requests)
        /\ downloaded = Cardinality(tide_saved)
        /\ pc = "done" => (Len(tide_requests) = 18 /\ downloaded + failed = 18)

\* the loop has ended after the first pair failed, five pairs failed in all and
\* the last pair was saved
C11_Witness ==
    /\ script = "fetch_tide_data" /\ pc = "done"
    /\ << "Auckland", 2024 >> \notin tide_saved
    /\ << "Napier", 2026 >> \in tide_saved
    /\ failed = 5 /\ downloaded = 13


(***************************************************************************)
(* process_tourism_data.py: the annual datasets (visitor arrivals,         *)
(* passenger movements)                                                    *)
(***************************************************************************)
\* int(cell) raises ValueError or TypeError: the cell is missing or a text that
\* is not, surrounding whitespace apart, a run of digits
IntRaises(cell) ==
    \/ cell.kind = "nan"
    \/ cell.kind = "str" /\ ~IsDigits(Strip(cell.s))

\* int(cell) when it does not raise
IntOf(cell) == IF cell.kind = "str" THEN DigitsToInt(Strip(cell.s)) ELSE cell.v

\* a range test that has lost its upper limit
ReasonableYearNoUpperLimit(yr) == 1800 <= yr

\* 1800 <= year <= 2100
ReasonableYear(yr) == 1800 <= yr /\ yr <= 2100

\* int(x) if pd.notna(x) else None, x = pd.to_numeric(cell, errors='coerce')
IntOrNone(cell) ==
    IF to_numeric_coerce(cell).kind = "nan" THEN "None" ELSE to_numeric_coerce(cell).v

\* the record process_visitor_arrivals appends for a row (load_timestamp, the
\* reading of the clock, is left out)
VisitorRecord(row) ==
    [report_year |-> IntOf(row[1]),
     report_date |-> << IntOf(row[1]), 12, 31 >>,
     period_type |-> "Annual",
     visitor_arrivals |-> to_numeric_coerce(row[2]).v,
     data_source |-> "Stats NZ ITM475712"]

\* the loop of process_visitor_arrivals over data_rows[1..n]; a row whose year
\* raises is skipped by the except clause
RECURSIVE process_visitor_arrivals(_, _)
process_visitor_arrivals(data_rows, n) ==
    IF n = 0 THEN << >>
    ELSE IF IntRaises(data_rows[n][1])
    THEN process_visitor_arrivals(data_rows, n - 1)
    ELSE IF to_numeric_coerce(data_rows[n][2]).kind # "nan"
            /\ ReasonableYear(IntOf(data_rows[n][1]))
    THEN Append(process_visitor_arrivals(data_rows, n - 1), VisitorRecord(data_rows[n]))
    ELSE process_visitor_arrivals(data_rows, n - 1)

\* the record process_passenger_movements appends for a row (load_timestamp is
\* left out)
PassengerRecord(row) ==
    [report_year |-> IntOf(row[1]),
     report_date |-> << IntOf(row[1]), 12, 31 >>,
     period_type |-> "Annual",
     arrivals_actual |-> IntOrNone(row[2]),
     arrivals_sample |-> IntOrNone(row[3]),
     departures_actual |-> IntOrNone(row[4]),
     departures_sample |-> IntOrNone(row[5]),
     total_actual |-> IntOrNone(row[6]),
     total_sample |-> IntOrNone(row[7]),
     data_source |-> "Stats NZ ITM332206"]

\* the loop of process_passenger_movements over data_rows[1..n]
RECURSIVE process_passenger_movements(_, _)
process_passenger_movements(data_rows, n) ==
    IF n = 0 THEN << >>
    ELSE IF IntRaises(data_rows[n][1])
    THEN process_passenger_movements(data_rows, n - 1)
    ELSE IF ReasonableYear(IntOf(data_rows[n][1]))
    THEN Append(process_passenger_movements(data_rows, n - 1),
                PassengerRecord(data_rows[n]))
    ELSE process_passenger_movements(data_rows, n - 1)

\* the first cell of a data row: a year as the file reader delivers it, a
\* footnote, or nothing
AnnualYearCells ==
    {Str(<<"1","7","5","0">>), Str(<<"1","7","9","9">>), Str(<<"1","8","0","0">>), Str(<<"2","0","2","4">>),
     Str(<<"2","1","0","0">>), Str(<<"2","1","0","1">>), Str(<<"T","o","t","a","l">>), NaN}

\* a count cell: a number as text, the '..' of a missing figure, or nothing
AnnualCountCells == {Str(<<"5","7">>), Str(<<".",".">>), NaN}

\* the data rows of the visitor-arrivals file: a year and a count
VisitorRows == {<< y, c >> : y \in AnnualYearCells, c \in AnnualCountCells}

\* the data rows of the passenger-movements file: a year and six counts, all
\* present or all missing
PassengerRows ==
    {<< y, c, c, c, c, c, c >> : y \in AnnualYearCells, c \in AnnualCountCells}

\* the number of data rows of an annual file
MaxAnnualRows == 2

\* the annual files of n data rows
AnnualCsvs(n) ==
    {[dataset |-> "visitor_arrivals", data_rows |-> rows] : rows \in [1..n -> VisitorRows]}
    \cup {[dataset |-> "passenger_movements", data_rows |-> rows]
             : rows \in [1..n -> PassengerRows]}

InitTourismAnnual ==
    /\ script = "process_tourism_data"
    /\ pc = "annual"
    /\ IdleMaritime /\ IdleEvents /\ IdleNiwa /\ IdleFuelType /\ IdleQuarterly
    /\ IdleFuelFixed /\ IdleTideFetch /\ IdleTideProc /\ IdleAirfares /\ IdleNiwaRuns
    /\ IdleDisk /\ IdleWaipuna /\ IdleTourismMain /\ IdleEventMain /\ IdleFuelTables
    /\ IdleEventDates
    /\ \E n \in 1..MaxAnnualRows : tourism_csv \in AnnualCsvs(n)
    /\ regions = Unset /\ metrics = Unset
    /\ processed_data = Unset /\ result_df = Unset

\* result_df = process_visitor_arrivals(file_path)
ProcessVisitorArrivals ==
    /\ script = "process_tourism_data"
    /\ pc = "annual"
    /\ tourism_csv.dataset = "visitor_arrivals"
    /\ processed_data' =
          process_visitor_arrivals(tourism_csv.data_rows, Len(tourism_csv.data_rows))
    /\ result_df' = processed_data'
    /\ pc' = "done"
    /\ UNCHANGED << script, tourism_csv, regions, metrics,
                    maritimeVars, eventVars, niwaVars, fuelTypeVars, quarterlyVars,
                    fuelFixedVars, tideFetchVars, tideProcVars, airfareVars,
                    niwaRunVars, diskVars, waipunaVars, tourismMainVars, eventMainVars,
                    fuelTableVars, eventDateVars >>

\* result_df = process_passenger_movements(file_path)
ProcessPassengerMovements ==
    /\ script = "process_tourism_data"
    /\ pc = "annual"
    /\ tourism_csv.dataset = "passenger_movements"
    /\ processed_data' =
          process_passenger_movements(tourism_csv.data_rows, Len(tourism_csv.data_rows))
    /\ result_df' = processed_data'
    /\ pc' = "done"
    /\ UNCHANGED << script, tourism_csv, regions, metrics,
                    maritimeVars, eventVars, niwaVars, fuelTypeVars, quarterlyVars,
                    fuelFixedVars, tideFetchVars, tideProcVars, airfareVars,
                    niwaRunVars, diskVars, waipunaVars, tourismMainVars, eventMainVars,
                    fuelTableVars, eventDateVars >>

NextTourismAnnual == ProcessVisitorArrivals \/ ProcessPassengerMovements

\* the annual functions have returned
AnnualDone ==
    /\ script = "process_tourism_data" /\ pc = "done"
    /\ tourism_csv.dataset \in {"visitor_arrivals", "passenger_movements"}

\* the year a source row carries, 0 when its first cell is not a whole number
SourceYear(row) ==
    IF row[1].kind = "str" /\ IsDigits(Strip(row[1].s)) THEN DigitsToInt(Strip(row[1].s))
    ELSE 0

\* the years of the source rows that satisfy a test, in file order
RECURSIVE YearsOfRows(_, _, _)
YearsOfRows(data_rows, keep, n) ==
    IF n = 0 THEN << >>
    ELSE IF keep[n] THEN Append(YearsOfRows(data_rows, keep, n - 1), SourceYear(data_rows[n]))
    ELSE YearsOfRows(data_rows, keep, n - 1)

\* C12 as stated: no output row has report_year outside [1800, 2100], and every
\* source row whose year is inside the range is kept in the output.
C12_InRangeKept ==
    AnnualDone =>
        /\ \A i \in 1..Len(result_df) : result_df[i].report_year \in 1800..2100
        /\ [i \in 1..Len(result_df) |-> result_df[i].report_year]
              = YearsOfRows(tourism_csv.data_rows,
                            [r \in 1..Len(tourism_csv.data_rows) |->
                                SourceYear(tourism_csv.data_rows[r]) \in 1800..2100],
                            Len(tourism_csv.data_rows))

\* the count of a visitor-arrivals row is a number
NumericCount(cell) == cell.kind = "num" \/ (cell.kind = "str" /\ IsDigits(Strip(cell.s)))

\* C12, amended: no output row has report_year outside [1800, 2100];
\* process_passenger_movements keeps every source row whose year is inside the
\* range, and process_visitor_arrivals keeps such a row exactly when its
\* visitor count is numeric.
C12_InRangeKeptWhenCounted ==
    AnnualDone =>
        /\ \A i \in 1..Len(result_df) : result_df[i].report_year \in 1800..2100
        /\ [i \in 1..Len(result_df) |-> result_df[i].report_year]
              = YearsOfRows(tourism_csv.data_rows,
                            [r \in 1..Len(tourism_csv.data_rows) |->
                                /\ SourceYear(tourism_csv.data_rows[r]) \in 1800..2100
                                /\ tourism_csv.dataset = "visitor_arrivals"
                                      => NumericCount(tourism_csv.data_rows[r][2])],
                            Len(tourism_csv.data_rows))

\* a file with a row of 1750 and a row of 2024 has been processed: the output
\* is the 2024 row alone
C12_Witness ==
    /\ AnnualDone
    /\ Len(tourism_csv.data_rows) = 2
    /\ tourism_csv.data_rows[1][1] = Str(<<"1","7","5","0">>)
    /\ tourism_csv.data_rows[2][1] = Str(<<"2","0","2","4">>)
    /\ Len(result_df) = 1 /\ result_df[1].report_year = 2024


(***************************************************************************)
(* Decimal numbers: a value is << mantissa, places >>, mantissa / 10^places, *)
(* with no trailing zero after the point                                   *)
(***************************************************************************)
RECURSIVE Normalised(_)
Normalised(d) ==
    IF d[2] > 0 /\ d[1] % 10 = 0 THEN Normalised(<< d[1] \div 10, d[2] - 1 >>) ELSE d

\* the positions of a character in a text
PositionsOf(s, ch) == {i \in 1..Len(s) : s[i] = ch}

\* the text without its characters at the given positions
Without(s, ps) == [i \in 1..(Len(s) - Cardinality(ps)) |->
                     s[CHOOSE k \in 1..Len(s) :
                          /\ k \notin ps
                          /\ Cardinality({j \in 1..k : j \notin ps}) = i]]

\* float(s) succeeds for an unsigned text: digits with at most one point
DecimalOk(s) ==
    /\ Cardinality(PositionsOf(s, ".")) <= 1
    /\ IsDigits(Without(s, PositionsOf(s, ".")))

\* float(s) of such a text
DecimalOf(s) ==
    Normalised(<< DigitsToInt(Without(s, PositionsOf(s, "."))),
                  IF PositionsOf(s, ".") = {} THEN 0
                  ELSE Len(s) - Min1(PositionsOf(s, ".")) >>)

\* s.split(ch)
RECURSIVE Split(_, _)
Split(s, ch) ==
    IF PositionsOf(s, ch) = {} THEN << s >>
    ELSE << SubSeq(s, 1, Min1(PositionsOf(s, ch)) - 1) >>
         \o Split(SubSeq(s, Min1(PositionsOf(s, ch)) + 1, Len(s)), ch)

(***************************************************************************)
(* process_tide_data.py: parse_tide_csv and the combined file              *)
(***************************************************************************)
DaysInMonth(yr, mo) ==
    IF mo \in {4, 6, 9, 11} THEN 30
    ELSE IF mo = 2
    THEN (IF yr % 4 = 0 /\ (yr % 100 # 0 \/ yr % 400 = 0) THEN 29 ELSE 28)
    ELSE 31

\* datetime(year_val, month, day) does not raise ValueError
ValidDate(yr, mo, dy) ==
    /\ yr \in 1..9999 /\ mo \in 1..12
    /\ dy >= 1 /\ dy <= DaysInMonth(yr, mo)

\* float(height_str) succeeds: a decimal, a minus sign before it allowed
HeightOk(s) == IF s # << >> /\ Head(s) = "-" THEN DecimalOk(Tail(s)) ELSE DecimalOk(s)

HeightOf(s) ==
    IF Head(s) = "-" THEN << 0 - DecimalOf(Tail(s))[1], DecimalOf(Tail(s))[2] >>
    ELSE DecimalOf(s)

\* the slot i (0..3) of a data line yields a record: both fields are there and
\* not empty, the time is HH:MM with an hour and a minute date.replace accepts,
\* and the height is a number
SlotParses(parts, i) ==
    /\ 6 + 2 * i <= Len(parts)
    /\ Strip(parts[5 + 2 * i]) # << >>
    /\ Strip(parts[6 + 2 * i]) # << >>
    /\ Len(Split(Strip(parts[5 + 2 * i]), ":")) = 2
    /\ ~IntRaises(Str(Split(Strip(parts[5 + 2 * i]), ":")[1]))
    /\ ~IntRaises(Str(Split(Strip(parts[5 + 2 * i]), ":")[2]))
    /\ IntOf(Str(Split(Strip(parts[5 + 2 * i]), ":")[1])) \in 0..23
    /\ IntOf(Str(Split(Strip(parts[5 + 2 * i]), ":")[2])) \in 0..59
    /\ HeightOk(Strip(parts[6 + 2 * i]))

\* the record of slot i (the port and file fields, the same in every record of
\* a file, are reduced to port_name)
TideRecord(port_name, parts, i) ==
    [port_name |-> port_name,
     date |-> << IntOf(Str(parts[4])), IntOf(Str(parts[3])), IntOf(Str(parts[1])) >>,
     day_of_week |-> parts[2],
     tide_time |-> Strip(parts[5 + 2 * i]),
     tide_height_m |-> HeightOf(Strip(parts[6 + 2 * i])),
     tide_sequence |-> i + 1,
     year |-> IntOf(Str(parts[4])),
     month |-> IntOf(Str(parts[3])),
     day |-> IntOf(Str(parts[1]))]

\* the records of the slots 0..n-1 with tide_sequence a running count of the
\* records of the line
RECURSIVE tides_per_day_running_count(_, _, _)
tides_per_day_running_count(port_name, parts, n) ==
    IF n = 0 THEN << >>
    ELSE IF SlotParses(parts, n - 1)
    THEN Append(tides_per_day_running_count(port_name, parts, n - 1),
                [TideRecord(port_name, parts, n - 1) EXCEPT
                    !.tide_sequence =
                        Len(tides_per_day_running_count(port_name, parts, n - 1)) + 1])
    ELSE tides_per_day_running_count(port_name, parts, n - 1)

\* for i in range(4): the records of the slots 0..n-1
RECURSIVE tides_per_day(_, _, _)
tides_per_day(port_name, parts, n) ==
    IF n = 0 THEN << >>
    ELSE IF SlotParses(parts, n - 1)
    THEN Append(tides_per_day(port_name, parts, n - 1),
                TideRecord(port_name, parts, n - 1))
    ELSE tides_per_day(port_name, parts, n - 1)

\* the records of the parts of one data line: none when a date field is not
\* a whole number or the date does not exist
PartsRecords(port_name, parts) ==
    IF Len(parts) < 4 THEN << >>
    ELSE IF \/ IntRaises(Str(parts[1])) \/ IntRaises(Str(parts[3]))
            \/ IntRaises(Str(parts[4]))
    THEN << >>
    ELSE IF ~ValidDate(IntOf(Str(parts[4])), IntOf(Str(parts[3])), IntOf(Str(parts[1])))
    THEN << >>
    ELSE tides_per_day(port_name, parts, 4)

\* one pass of the loop over lines[data_start_line:]
LineRecords(port_name, line) ==
    IF Strip(line) = << >> THEN << >>
    ELSE PartsRecords(port_name, Split(Strip(line), ","))

\* sort_values(['port_name', 'date', 'tide_sequence']) of the rows of one port:
\* a row keeps its place after the rows that do not sort after it
TideKeyAtMost(a, b) ==
    \/ a.date[1] < b.date[1]
    \/ a.date[1] = b.date[1] /\ a.date[2] < b.date[2]
    \/ a.date[1] = b.date[1] /\ a.date[2] = b.date[2] /\ a.date[3] < b.date[3]
    \/ a.date = b.date /\ a.tide_sequence <= b.tide_sequence

RECURSIVE InsertTide(_, _)
InsertTide(sorted, rec) ==
    IF sorted = << >> THEN << rec >>
    ELSE IF TideKeyAtMost(sorted[Len(sorted)], rec) THEN Append(sorted, rec)
    ELSE Append(InsertTide(SubSeq(sorted, 1, Len(sorted) - 1), rec), sorted[Len(sorted)])

RECURSIVE SortTides(_, _)
SortTides(recs, n) ==
    IF n = 0 THEN << >> ELSE InsertTide(SortTides(recs, n - 1), recs[n])

\* the data lines of a prediction file
TideLines ==
    {<<"1",",","M","o",",","1",",","2","0","2","4",",","0","3",":","1","5",",","0",".","5",",","0","9",":","3","0",",","3",".","1","2">>,
     <<"3","1",",","T","h",",","1","2",",","2","0","2","6",",","2","3",":","5","9",",","-","0",".","1">>,
     <<"1",",","F","r",",","1",",","2","0","2","7",",","0","3",":","1","5",",","0",".","5">>,
     <<"3","1",",","S","u",",","1","2",",","2","0","2","3",",","0","3",":","1","5",",","0",".","5">>,
     <<"3","0",",","F","r",",","2",",","2","0","2","4",",","0","3",":","1","5",",","0",".","5">>,
     <<"1",",","M","o",",","1",",","2","0","2","4",",","2","5",":","0","0",",","0",".","5",",","0","9",":","3","0",",","x",",",",",",","2","1",":","4","0",",","2",".","0">>,
     <<"x",",","M","o",",","1",",","2","0","2","4",",","0","3",":","1","5",",","0",".","5">>,
     <<"1",",","M","o",",","1">>,
     <<" ">>}

\* the number of data lines of a file
MaxTideLines == 2

TideFiles ==
    UNION {{[port_name |-> "Auckland", lines |-> ls] : ls \in [1..n -> TideLines]}
           : n \in 1..MaxTideLines}

InitTideProc ==
    /\ script = "process_tide_data"
    /\ pc = "lines"
    /\ IdleMaritime /\ IdleEvents /\ IdleTourism /\ IdleNiwa /\ IdleFuelType
    /\ IdleQuarterly /\ IdleFuelFixed /\ IdleTideFetch /\ IdleAirfares /\ IdleNiwaRuns
    /\ IdleDisk /\ IdleWaipuna /\ IdleTourismMain /\ IdleEventMain /\ IdleFuelTables
    /\ IdleEventDates
    /\ tide_file \in TideFiles
    /\ tide_line_num = 0
    /\ tide_data = << >>
    /\ df_tides = Unset

\* parse_tide_csv: one pass of the loop over the data lines
ParseTideLine ==
    /\ script = "process_tide_data"
    /\ pc = "lines"
    /\ tide_line_num < Len(tide_file.lines)
    /\ tide_line_num' = tide_line_num + 1
    /\ tide_data' = tide_data \o LineRecords(tide_file.port_name,
                                             tide_file.lines[tide_line_num + 1])
    /\ UNCHANGED << script, pc, tide_file, df_tides,
                    maritimeVars, eventVars, tourismVars, niwaVars, fuelTypeVars,
                    quarterlyVars, fuelFixedVars, tideFetchVars, airfareVars,
                    niwaRunVars, diskVars, waipunaVars, tourismMainVars, eventMainVars,
                    fuelTableVars, eventDateVars >>

\* process_all_tide_files after the files are parsed: the records, sorted, are
\* written to tide_predictions_combined.csv when there is one at least
SaveTides ==
    /\ script = "process_tide_data"
    /\ pc = "lines"
    /\ tide_line_num = Len(tide_file.lines)
    /\ df_tides' = IF tide_data # << >> THEN SortTides(tide_data, Len(tide_data))
                   ELSE "not written"
    /\ pc' = "done"
    /\ UNCHANGED << script, tide_file, tide_line_num, tide_data,
                    maritimeVars, eventVars, tourismVars, niwaVars, fuelTypeVars,
                    quarterlyVars, fuelFixedVars, tideFetchVars, airfareVars,
                    niwaRunVars, diskVars, waipunaVars, tourismMainVars, eventMainVars,
                    fuelTableVars, eventDateVars >>

NextTideProc == ParseTideLine \/ SaveTides

\* C13: every record parse_tide_csv emits, and every row of
\* tide_predictions_combined.csv, has a year within 2024..2026: a data line
\* whose year is outside that range produces no record.
C13_YearsWithinRange ==
    script = "process_tide_data" =>
        /\ \A i \in 1..Len(tide_data) : tide_data[i].year \in 2024..2026
        /\ (pc = "done" /\ df_tides # "not written")
              => \A i \in 1..Len(df_tides) : df_tides[i].year \in 2024..2026


(***************************************************************************)
(* process_airfares_data.py: the numeric coercion of the price columns     *)
(***************************************************************************)
\* a float cell: d is the decimal << mantissa, places >>, neg its sign
Float(d, neg) == [kind |-> "float", d |-> d, neg |-> neg]

\* the decimal digits of a natural number
RECURSIVE IntToDigits(_)
IntToDigits(n) ==
    IF n < 10 THEN << DigitChars[n + 1] >>
    ELSE Append(IntToDigits(n \div 10), DigitChars[(n % 10) + 1])

Zeros(n) == [i \in 1..n |-> "0"]

\* repr of a positive float in positional notation: digits are those of the
\* mantissa, places the number of them after the point
FixedRepr(digits, places) ==
    IF places = 0 THEN digits \o << ".", "0" >>
    ELSE IF Len(digits) > places
    THEN SubSeq(digits, 1, Len(digits) - places) \o << "." >>
         \o SubSeq(digits, Len(digits) - places + 1, Len(digits))
    ELSE << "0", "." >> \o Zeros(places - Len(digits)) \o digits

\* repr of a positive float in exponent notation, exponent ex
ExponentRepr(digits, ex) ==
    << Head(digits) >>
    \o (IF Len(digits) > 1 THEN << "." >> \o Tail(digits) ELSE << >>)
    \o << "e", IF ex < 0 THEN "-" ELSE "+" >>
    \o (IF (IF ex < 0 THEN 0 - ex ELSE ex) < 10 THEN << "0" >> ELSE << >>)
    \o IntToDigits(IF ex < 0 THEN 0 - ex ELSE ex)

\* str() of a float: exponent notation when the decimal exponent is below -4
\* or at least 16
FloatRepr(d) ==
    IF d[1] = 0 THEN << "0", ".", "0" >>
    ELSE IF Len(IntToDigits(d[1])) - 1 - d[2] < -4 \/ Len(IntToDigits(d[1])) - 1 - d[2] >= 16
    THEN ExponentRepr(IntToDigits(d[1]), Len(IntToDigits(d[1])) - 1 - d[2])
    ELSE FixedRepr(IntToDigits(d[1]), d[2])

\* df[col].astype(str) of one cell
AsTypeStr(cell) ==
    IF cell.kind = "nan" THEN << "n", "a", "n" >>
    ELSE IF cell.kind = "str" THEN cell.s
    ELSE (IF cell.neg THEN << "-" >> ELSE << >>) \o FloatRepr(cell.d)

\* .str.replace(r'[^\d.]', '', regex=True)
RemoveNonNumeric(s) == SelectSeq(s, LAMBDA c : c = "." \/ IsDigits(<< c >>))

\* pd.to_numeric(text, errors='coerce') of a text of digits and points
PriceToNumeric(s) == IF DecimalOk(s) THEN Float(DecimalOf(s), FALSE) ELSE NaN

\* the coercion of one cell of a price column
CoercePrice(cell) == PriceToNumeric(RemoveNonNumeric(AsTypeStr(cell)))

\* the cells of a price column: texts with and without currency marks, floats
\* of a numeric column, nothing
PriceTexts ==
    {<<"1",",","2","3","4",".","5","0">>, <<"5","7">>, <<"0",".","5">>, <<"1","2",".","0">>, <<"0",".","0","0","0","0","5">>,
     <<"0",".","0","0","0","1">>, <<"1",".","2",".","3">>, <<"f","r","e","e">>, <<>>, <<"1","0","0","0","0","0">>}

PriceMarks == {<< >>, << "$" >>, << "N", "Z", "$", " " >>, << "-" >>}

PriceCells ==
    {Str(m \o t) : m \in PriceMarks, t \in PriceTexts}
    \cup {Float(<< 12345, 1 >>, FALSE), Float(<< 57, 0 >>, FALSE), Float(<< 5, 5 >>, FALSE),
          Float(<< 5, 0 >>, TRUE), Float(<< 0, 0 >>, FALSE), NaN}

InitAirfares ==
    /\ script = "process_airfares_data"
    /\ pc = "start"
    /\ IdleMaritime /\ IdleEvents /\ IdleTourism /\ IdleNiwa /\ IdleFuelType
    /\ IdleQuarterly /\ IdleFuelFixed /\ IdleTideFetch /\ IdleTideProc /\ IdleNiwaRuns
    /\ IdleDisk /\ IdleWaipuna /\ IdleTourismMain /\ IdleEventMain /\ IdleFuelTables
    /\ IdleEventDates
    /\ price_cell \in PriceCells
    /\ price_coerced = Unset
    /\ price_recoerced = Unset

\* the loop over price_cols: the coercion of a cell of the column
CoercePriceColumn ==
    /\ script = "process_airfares_data"
    /\ pc = "start"
    /\ price_coerced' = CoercePrice(price_cell)
    /\ pc' = "coerced"
    /\ UNCHANGED << script, price_cell, price_recoerced,
                    maritimeVars, eventVars, tourismVars, niwaVars, fuelTypeVars,
                    quarterlyVars, fuelFixedVars, tideFetchVars, tideProcVars,
                    niwaRunVars, diskVars, waipunaVars, tourismMainVars, eventMainVars,
                    fuelTableVars, eventDateVars >>

\* the same coercion applied to the coerced column
CoercePriceAgain ==
    /\ script = "process_airfares_data"
    /\ pc = "coerced"
    /\ price_recoerced' = CoercePrice(price_coerced)
    /\ pc' = "done"
    /\ UNCHANGED << script, price_cell, price_coerced,
                    maritimeVars, eventVars, tourismVars, niwaVars, fuelTypeVars,
                    quarterlyVars, fuelFixedVars, tideFetchVars, tideProcVars,
                    niwaRunVars, diskVars, waipunaVars, tourismMainVars, eventMainVars,
                    fuelTableVars, eventDateVars >>

NextAirfares == CoercePriceColumn \/ CoercePriceAgain

\* C14: the numeric coercion of the price columns is idempotent (coercing a
\* coerced value again yields the same value), and "$1,234.50" coerces to
\* 1234.50.
C14_CoercionIdempotent ==
    (script = "process_airfares_data" /\ pc = "done") =>
        /\ price_recoerced = price_coerced
        /\ price_cell = Str(<<"$","1",",","2","3","4",".","5","0">>) => price_coerced = Float(<< 12345, 1 >>, FALSE)


(***************************************************************************)
(* process_niwa_climate.py: main, run after run over processed_data/       *)
(***************************************************************************)
NiwaStations == {"2112", "4960"}

\* a zip of data/: <station>_Rain.zip or <station>_Temperature.zip, with the
\* series (annual, monthly) its members provide
NiwaZips ==
    [station_id : NiwaStations, data_type : {"rain", "temperature"},
     series : {{"annual", "monthly"}, {"annual"}}]

\* the contents data/ can have: one zip at most for a station and a data type
NiwaDataDirs ==
    {d \in SUBSET NiwaZips :
        \A a \in d, b \in d :
            (a.station_id = b.station_id /\ a.data_type = b.data_type) => a = b}

\* the prefix of the output file names of a data type
OutputPrefix(data_type) == IF data_type = "rain" THEN "rainfall" ELSE "temperature"

\* the station files the loop over zip_files writes: <prefix>_<series>_station_<id>.csv
StationFilesOf(zips) ==
    UNION {{<< OutputPrefix(z.data_type), series, z.station_id >> : series \in z.series}
           : z \in zips}

\* the rows a file holds are marked with the station they derive from and with
\* the run that produced them; a new run makes the rows on disk rows of an
\* earlier run
Aged(rows) == {<< r[1], "earlier run" >> : r \in rows}

\* processed_data/ after the loop over zip_files
AfterStationFiles(output_dir, zips) ==
    [f \in DOMAIN output_dir \cup StationFilesOf(zips) |->
        IF f \in StationFilesOf(zips) THEN {<< f[3], "this run" >>}
        ELSE Aged(output_dir[f])]

\* output_dir.glob("<prefix>_<series>_station_*.csv")
GlobStationFiles(output_dir, prefix, series) ==
    {f \in DOMAIN output_dir : f[1] = prefix /\ f[2] = series /\ f[3] # "combined"}

\* the combined files written: one for each prefix and series with a station
\* file on disk
CombinedWritten(output_dir) ==
    {f \in {<< prefix, series, "combined" >> : prefix \in {"rainfall", "temperature"},
                                              series \in {"annual", "monthly"}} :
        GlobStationFiles(output_dir, f[1], f[2]) # {}}

\* pd.concat([pd.read_csv(f) for f in files]) written to <prefix>_<series>_combined.csv
AfterCombined(output_dir) ==
    [f \in DOMAIN output_dir \cup CombinedWritten(output_dir) |->
        IF f \in CombinedWritten(output_dir)
        THEN UNION {output_dir[g] : g \in GlobStationFiles(output_dir, f[1], f[2])}
        ELSE output_dir[f]]

InitNiwaRuns ==
    /\ script = "process_niwa_climate"
    /\ pc = "idle"
    /\ IdleMaritime /\ IdleEvents /\ IdleTourism /\ IdleNiwa /\ IdleFuelType
    /\ IdleQuarterly /\ IdleFuelFixed /\ IdleTideFetch /\ IdleTideProc
    /\ IdleAirfares /\ IdleDisk /\ IdleWaipuna /\ IdleTourismMain /\ IdleEventMain
    /\ IdleFuelTables /\ IdleEventDates
    /\ niwa_data_dir \in NiwaDataDirs
    /\ niwa_output_dir = << >>

\* main()
RunNiwaMain ==
    /\ script = "process_niwa_climate"
    /\ niwa_output_dir' = AfterCombined(AfterStationFiles(niwa_output_dir, niwa_data_dir))
    /\ pc' = "ran"
    /\ UNCHANGED << script, niwa_data_dir,
                    maritimeVars, eventVars, tourismVars, niwaVars, fuelTypeVars,
                    quarterlyVars, fuelFixedVars, tideFetchVars, tideProcVars,
                    airfareVars, diskVars, waipunaVars, tourismMainVars, eventMainVars,
                    fuelTableVars, eventDateVars >>

\* between two runs the zips of data/ are added, replaced or removed
ChangeNiwaInputs ==
    /\ script = "process_niwa_climate"
    /\ pc = "ran"
    /\ niwa_data_dir' \in NiwaDataDirs
    /\ pc' = "idle"
    /\ UNCHANGED << script, niwa_output_dir,
                    maritimeVars, eventVars, tourismVars, niwaVars, fuelTypeVars,
                    quarterlyVars, fuelFixedVars, tideFetchVars, tideProcVars,
                    airfareVars, diskVars, waipunaVars, tourismMainVars, eventMainVars,
                    fuelTableVars, eventDateVars >>

NextNiwaRuns == RunNiwaMain \/ ChangeNiwaInputs

\* C15: after any sequence of runs, each combined file holds only rows derived
\* from the zips of the most recent run: no row of a station whose zip was
\* removed, no row produced by an earlier run.
C15_CombinedFromLastRunOnly ==
    (script = "process_niwa_climate" /\ pc = "ran") =>
        \A f \in DOMAIN niwa_output_dir :
            f[3] = "combined" =>
                \A r \in niwa_output_dir[f] :
                    /\ r[2] = "this run"
                    /\ \E z \in niwa_data_dir : z.station_id = r[1]


(***************************************************************************)
(* The output paths of the scripts                                         *)
(***************************************************************************)
\* the paths a script writes when its inputs are present and usable; <id>,
\* <sheet>, <city> and <year> stand for the part of a name taken from the input
OutputPaths ==
    [fetch_eventfinda_data |-> {"processed_data/eventfinda_events.csv"},
     fetch_tide_data |-> {"data/<city>_<year>_tide_predictions.csv"},
     fix_fuel_data_processing |->
        {"processed_data/electricity_generation_by_fuel_corrected.csv"},
     fix_quarterly_data |->
        {"processed_data/electricity_quarterly_generation_fixed.csv"},
     process_airfares_data |-> {"processed_data/nz_airfares.csv"},
     process_and_load_electricity |->
        {"processed_data/electricity_zone_data_5min_final.csv",
         "processed_data/electricity_generation_by_fuel_final.csv",
         "processed_data/electricity_quarterly_generation_final.csv"},
     process_electricity_data |->
        {"processed_data/electricity_<sheet>.csv",
         "processed_data/electricity_zone_data_5min.csv"},
     process_fuel_data_fixed |->
        {"processed_data/electricity_generation_by_fuel_fixed.csv"},
     process_maritime_incidents |-> {"processed_data/maritime_incidents_processed.csv"},
     process_niwa_climate |->
        {"processed_data/rainfall_annual_station_<id>.csv",
         "processed_data/rainfall_monthly_station_<id>.csv",
         "processed_data/temperature_annual_station_<id>.csv",
         "processed_data/temperature_monthly_station_<id>.csv",
         "processed_data/rainfall_annual_combined.csv",
         "processed_data/rainfall_monthly_combined.csv",
         "processed_data/temperature_annual_combined.csv",
         "processed_data/temperature_monthly_combined.csv"},
     process_tide_data |->
        {"processed_data/tide_predictions_combined.csv",
         "processed_data/tide_statistics_by_port.csv",
         "processed_data/tide_ports_metadata.csv"},
     process_tourism_data |->
        {"processed_data/visitor_arrivals.csv",
         "processed_data/passenger_movements.csv",
         "processed_data/guest_nights_by_region.csv",
         "processed_data/occupancy_rates_by_region.csv",
         "processed_data/migrant_arrivals.csv"},
     process_waipuna_rangi_complete |->
        {"processed_data/waipa_flood_zones.csv",
         "processed_data/waipa_flood_boundaries.csv",
         "processed_data/icnz_disaster_costs.csv",
         "processed_data/rainfall_annual_combined.csv",
         "processed_data/rainfall_monthly_combined.csv",
         "processed_data/temperature_annual_combined.csv",
         "processed_data/temperature_monthly_combined.csv"},
     simple_electricity_processing |->
        {"processed_data/electricity_zone_data_5min_final.csv",
         "processed_data/electricity_generation_by_fuel_final.csv",
         "processed_data/electricity_quarterly_generation_final.csv"}]

InitDisk ==
    /\ script = "any"
    /\ pc = "idle"
    /\ IdleMaritime /\ IdleEvents /\ IdleTourism /\ IdleNiwa /\ IdleFuelType
    /\ IdleQuarterly /\ IdleFuelFixed /\ IdleTideFetch /\ IdleTideProc
    /\ IdleAirfares /\ IdleNiwaRuns /\ IdleWaipuna /\ IdleTourismMain /\ IdleEventMain
    /\ IdleFuelTables /\ IdleEventDates
    /\ disk = << >>
    /\ overwritten = {}

\* one run of a script: df.to_csv(output_file) for each of its outputs
RunScript ==
    /\ script = "any"
    /\ \E s \in DOMAIN OutputPaths :
          /\ disk' = [p \in DOMAIN disk \cup OutputPaths[s] |->
                         IF p \in OutputPaths[s] THEN s ELSE disk[p]]
          /\ overwritten' =
                overwritten \cup {p \in DOMAIN disk \cap OutputPaths[s] : disk[p] # s}
    /\ UNCHANGED << script, pc,
                    maritimeVars, eventVars, tourismVars, niwaVars, fuelTypeVars,
                    quarterlyVars, fuelFixedVars, tideFetchVars, tideProcVars,
                    airfareVars, niwaRunVars, waipunaVars, tourismMainVars,
                    eventMainVars, fuelTableVars, eventDateVars >>

\* C16: no output path is written by more than one script: whatever scripts
\* have run, in whatever order, none has written over the output of another.
C16_NoSharedOutputPath ==
    script = "any" => overwritten = {}


(***************************************************************************)
(* process_waipuna_rangi_complete.py: main over its three sources          *)
(***************************************************************************)
\* the inputs of a run. flood: both files usable, a file missing, the CSV
\* unreadable (pd.read_csv raises), the GeoJSON unusable (json.load or a key
\* lookup raises). cost: the file usable, missing, or without an expected
\* column (KeyError). climate: the zips usable with rainfall and temperature
\* members or rainfall members only, no zip, a zip that cannot be read, or a
\* monthly rainfall table the pivot rejects (KeyError) after the annual
\* rainfall file is written.
WaipunaInputs ==
    [flood : {"ok", "missing", "csv raises", "geojson raises"},
     cost : {"ok", "missing", "raises"},
     climate : {"ok", "rain only", "missing", "zip raises", "monthly rainfall raises"}]

FloodFiles == << "waipa_flood_zones.csv", "waipa_flood_boundaries.csv" >>

CostFile == "icnz_disaster_costs.csv"

ClimateFiles ==
    << "rainfall_annual_combined.csv", "rainfall_monthly_combined.csv",
       "temperature_annual_combined.csv", "temperature_monthly_combined.csv" >>

InitWaipuna ==
    /\ script = "process_waipuna_rangi_complete"
    /\ pc = "flood"
    /\ IdleMaritime /\ IdleEvents /\ IdleTourism /\ IdleNiwa /\ IdleFuelType
    /\ IdleQuarterly /\ IdleFuelFixed /\ IdleTideFetch /\ IdleTideProc
    /\ IdleAirfares /\ IdleNiwaRuns /\ IdleDisk /\ IdleTourismMain /\ IdleEventMain
    /\ IdleFuelTables /\ IdleEventDates
    /\ waipuna_sources \in WaipunaInputs
    /\ waipuna_written = {}
    /\ all_outputs = << >>

\* flood_outputs = process_waipa_flood_data(data_dir, processed_dir) and the
\* extension of all_outputs; an exception leaves main
ProcessWaipaFlood ==
    /\ script = "process_waipuna_rangi_complete"
    /\ pc = "flood"
    /\ \/ /\ waipuna_sources.flood = "ok"
          /\ waipuna_written' = waipuna_written \cup {FloodFiles[1], FloodFiles[2]}
          /\ all_outputs' = all_outputs \o FloodFiles
          /\ pc' = "cost"
       \/ /\ waipuna_sources.flood = "missing"
          /\ pc' = "cost"
          /\ UNCHANGED << waipuna_written, all_outputs >>
       \/ /\ waipuna_sources.flood = "csv raises"
          /\ pc' = "raised"
          /\ UNCHANGED << waipuna_written, all_outputs >>
       \/ /\ waipuna_sources.flood = "geojson raises"
          /\ waipuna_written' = waipuna_written \cup {FloodFiles[1]}
          /\ pc' = "raised"
          /\ UNCHANGED all_outputs
    /\ UNCHANGED << script, waipuna_sources,
                    maritimeVars, eventVars, tourismVars, niwaVars, fuelTypeVars,
                    quarterlyVars, fuelFixedVars, tideFetchVars, tideProcVars,
                    airfareVars, niwaRunVars, diskVars, tourismMainVars, eventMainVars,
                    fuelTableVars, eventDateVars >>

\* cost_output = process_icnz_disaster_costs(data_dir, processed_dir)
ProcessIcnzCosts ==
    /\ script = "process_waipuna_rangi_complete"
    /\ pc = "cost"
    /\ \/ /\ waipuna_sources.cost = "ok"
          /\ waipuna_written' = waipuna_written \cup {CostFile}
          /\ all_outputs' = Append(all_outputs, CostFile)
          /\ pc' = "climate"
       \/ /\ waipuna_sources.cost = "missing"
          /\ pc' = "climate"
          /\ UNCHANGED << waipuna_written, all_outputs >>
       \/ /\ waipuna_sources.cost = "raises"
          /\ pc' = "raised"
          /\ UNCHANGED << waipuna_written, all_outputs >>
    /\ UNCHANGED << script, waipuna_sources,
                    maritimeVars, eventVars, tourismVars, niwaVars, fuelTypeVars,
                    quarterlyVars, fuelFixedVars, tideFetchVars, tideProcVars,
                    airfareVars, niwaRunVars, diskVars, tourismMainVars, eventMainVars,
                    fuelTableVars, eventDateVars >>

\* climate_outputs = process_niwa_climate_data(data_dir, processed_dir), the
\* extension of all_outputs and the return of main
ProcessClimateSource ==
    /\ script = "process_waipuna_rangi_complete"
    /\ pc = "climate"
    /\ \/ /\ waipuna_sources.climate = "ok"
          /\ waipuna_written' = waipuna_written \cup {ClimateFiles[i] : i \in 1..4}
          /\ all_outputs' = all_outputs \o ClimateFiles
          /\ pc' = "done"
       \/ /\ waipuna_sources.climate = "rain only"
          /\ waipuna_written' = waipuna_written \cup {ClimateFiles[1], ClimateFiles[2]}
          /\ all_outputs' = all_outputs \o SubSeq(ClimateFiles, 1, 2)
          /\ pc' = "done"
       \/ /\ waipuna_sources.climate = "missing"
          /\ pc' = "done"
          /\ UNCHANGED << waipuna_written, all_outputs >>
       \/ /\ waipuna_sources.climate = "zip raises"
          /\ pc' = "raised"
          /\ UNCHANGED << waipuna_written, all_outputs >>
       \/ /\ waipuna_sources.climate = "monthly rainfall raises"
          /\ waipuna_written' = waipuna_written \cup {ClimateFiles[1]}
          /\ pc' = "raised"
          /\ UNCHANGED all_outputs
    /\ UNCHANGED << script, waipuna_sources,
                    maritimeVars, eventVars, tourismVars, niwaVars, fuelTypeVars,
                    quarterlyVars, fuelFixedVars, tideFetchVars, tideProcVars,
                    airfareVars, niwaRunVars, diskVars, tourismMainVars, eventMainVars,
                    fuelTableVars, eventDateVars >>

NextWaipuna == ProcessWaipaFlood \/ ProcessIcnzCosts \/ ProcessClimateSource

\* C17: a failure while processing one source aborts only that source: at the
\* end of the run, the output files of every source whose input is usable
\* are written.
C17_OtherSourcesStillWritten ==
    (script = "process_waipuna_rangi_complete" /\ pc \in {"done", "raised"}) =>
        /\ waipuna_sources.flood = "ok"
              => {FloodFiles[1], FloodFiles[2]} \subseteq waipuna_written
        /\ waipuna_sources.cost = "ok" => CostFile \in waipuna_written
        /\ waipuna_sources.climate = "ok"
              => {ClimateFiles[i] : i \in 1..4} \subseteq waipuna_written


(***************************************************************************)
(* process_tourism_data.py: main over files_to_process                     *)
(***************************************************************************)
\* the output file of each entry of files_to_process, in the order of the dict
files_to_process ==
    << "visitor_arrivals.csv", "passenger_movements.csv", "guest_nights_by_region.csv",
       "occupancy_rates_by_region.csv", "migrant_arrivals.csv" >>

\* the number of records a processor returns
MaxRecords == 2

\* what happens to an input file: it is not there, its processor raises, its
\* processor returns a frame of n records (0..MaxRecords), or the save step
\* raises before or after df.to_csv has written the file
FileOutcomes ==
    {[kind |-> k] : k \in {"missing", "processor raises", "save raises before write",
                           "save raises after write"}}
    \cup {[kind |-> "processed", records |-> n] : n \in 0..MaxRecords}

\* output_path is not None: the frame had a record and save_processed_data returned
Saved(outcome) == outcome.kind = "processed" /\ outcome.records > 0

\* a loop that ends at the first exception
NextFileIndexStopOnError(outcome, idx) ==
    IF outcome.kind \in {"processor raises", "save raises before write",
                         "save raises after write"}
    THEN Len(files_to_process) ELSE idx + 1

\* continue, in the missing-file branch and in the except clause, and the end
\* of the loop body all lead to the next entry
NextFileIndex(outcome, idx) == idx + 1

InitTourismMain ==
    /\ script = "process_tourism_data"
    /\ pc = "main"
    /\ IdleMaritime /\ IdleEvents /\ IdleTourism /\ IdleNiwa /\ IdleFuelType
    /\ IdleQuarterly /\ IdleFuelFixed /\ IdleTideFetch /\ IdleTideProc
    /\ IdleAirfares /\ IdleNiwaRuns /\ IdleDisk /\ IdleWaipuna /\ IdleEventMain
    /\ IdleFuelTables /\ IdleEventDates
    /\ tourism_inputs \in [1..Len(files_to_process) -> FileOutcomes]
    /\ file_index = 0
    /\ processed_files = << >>
    /\ total_records = 0
    /\ tourism_saved = {}
    /\ main_result = Unset

\* one pass of the loop over files_to_process.items()
ProcessInputFile ==
    /\ script = "process_tourism_data"
    /\ pc = "main"
    /\ file_index < Len(files_to_process)
    /\ LET outcome == tourism_inputs[file_index + 1]
           output_file == files_to_process[file_index + 1] IN
       /\ processed_files' =
             IF Saved(outcome) THEN Append(processed_files, output_file)
             ELSE processed_files
       /\ total_records' =
             IF Saved(outcome) THEN total_records + outcome.records ELSE total_records
       /\ tourism_saved' =
             IF Saved(outcome) \/ outcome.kind = "save raises after write"
             THEN tourism_saved \cup {output_file} ELSE tourism_saved
       /\ file_index' = NextFileIndex(outcome, file_index)
    /\ UNCHANGED << script, pc, tourism_inputs, main_result,
                    maritimeVars, eventVars, tourismVars, niwaVars, fuelTypeVars,
                    quarterlyVars, fuelFixedVars, tideFetchVars, tideProcVars,
                    airfareVars, niwaRunVars, diskVars, waipunaVars, eventMainVars,
                    fuelTableVars, eventDateVars >>

\* the summary is printed and main returns 0
ReturnFromMain ==
    /\ script = "process_tourism_data"
    /\ pc = "main"
    /\ file_index = Len(files_to_process)
    /\ main_result' = 0
    /\ pc' = "done"
    /\ UNCHANGED << script, tourism_inputs, file_index, processed_files,
                    total_records, tourism_saved,
                    maritimeVars, eventVars, tourismVars, niwaVars, fuelTypeVars,
                    quarterlyVars, fuelFixedVars, tideFetchVars, tideProcVars,
                    airfareVars, niwaRunVars, diskVars, waipunaVars, eventMainVars,
                    fuelTableVars, eventDateVars >>

NextTourismMain == ProcessInputFile \/ ReturnFromMain

\* the input files processed without error and with at least one record
GoodFiles ==
    {i \in 1..5 : /\ tourism_inputs[i].kind = "processed"
                  /\ tourism_inputs[i].records >= 1}

\* the sum of the record counts of a set of input files
RECURSIVE RecordsOf(_)
RecordsOf(fs) ==
    IF fs = {} THEN 0
    ELSE LET i == CHOOSE j \in fs : TRUE
         IN  tourism_inputs[i].records + RecordsOf(fs \ {i})

\* C18: whatever subset of the five input files is missing or makes its
\* processor or the save step raise, every other file is processed and saved;
\* at the end processed_files holds exactly the outputs of the files processed
\* without error and with at least one record, total_records is the sum of
\* their row counts, and main returns 0.
C18_EveryOtherFileSaved ==
    (script = "process_tourism_data" /\ pc = "done") =>
        /\ \A i \in GoodFiles : files_to_process[i] \in tourism_saved
        /\ {processed_files[k] : k \in 1..Len(processed_files)}
              = {files_to_process[i] : i \in GoodFiles}
        /\ Len(processed_files) = Cardinality(GoodFiles)
        /\ total_records = RecordsOf(GoodFiles)
        /\ main_result = 0

\* main has returned after the first file was missing, the second made its
\* processor raise, the fourth made the save step raise, and the third and the
\* fifth were saved
C18_Witness ==
    /\ script = "process_tourism_data" /\ pc = "done" /\ main_result = 0
    /\ tourism_inputs[1].kind = "missing"
    /\ tourism_inputs[2].kind = "processor raises"
    /\ tourism_inputs[4].kind = "save raises before write"
    /\ processed_files = << "guest_nights_by_region.csv", "migrant_arrivals.csv" >>
    /\ total_records = 3


(***************************************************************************)
(* fetch_eventfinda_data.py: main                                          *)
(***************************************************************************)
\* an item of the feed: one that qualifies for output (a title, a description
\* and a start date before the cutoff), one whose start date is after the
\* cutoff, one whose description has no date, one without a title
EventItems == {"qualifies", "after cutoff", "no date", "no title"}

\* the number of items of a feed
MaxItems == 2

\* a run: the request succeeds or raises, the content is well-formed RSS with
\* up to MaxItems items or not XML, the CSV can be written or not
EventFeeds ==
    UNION {[fetch : {"ok", "raises"}, xml : {"well-formed", "malformed"},
            items : [1..n -> EventItems], write : {"ok", "raises"}]
           : n \in 0..MaxItems}

\* the columns of pd.DataFrame(events): those of the event dicts, none when
\* the list is empty
EventColumns(events) ==
    IF events = << >> THEN {}
    ELSE {"event_id", "title", "description", "location_text", "date_info_original",
          "start_date", "end_date", "is_recurring", "category", "event_url",
          "publication_date", "fetch_timestamp", "data_source", "rss_feed_url"}

\* the loop of process_rss_to_dataframe: the items appended to events
QualifyingItems(items) == SelectSeq(items, LAMBDA it : it = "qualifies")

InitEventMain ==
    /\ script = "fetch_eventfinda_data"
    /\ pc = "fetch"
    /\ IdleMaritime /\ IdleEvents /\ IdleTourism /\ IdleNiwa /\ IdleFuelType
    /\ IdleQuarterly /\ IdleFuelFixed /\ IdleTideFetch /\ IdleTideProc
    /\ IdleAirfares /\ IdleNiwaRuns /\ IdleDisk /\ IdleWaipuna /\ IdleTourismMain
    /\ IdleFuelTables /\ IdleEventDates
    /\ event_feed \in EventFeeds
    /\ events_df = Unset
    /\ event_exit = Unset

\* rss_content = fetch_eventfinda_rss(rss_url); the exception it re-raises is
\* caught by main, which returns 1
FetchRss ==
    /\ script = "fetch_eventfinda_data"
    /\ pc = "fetch"
    /\ IF event_feed.fetch = "ok"
       THEN pc' = "process" /\ UNCHANGED event_exit
       ELSE pc' = "done" /\ event_exit' = 1
    /\ UNCHANGED << script, event_feed, events_df,
                    maritimeVars, eventVars, tourismVars, niwaVars, fuelTypeVars,
                    quarterlyVars, fuelFixedVars, tideFetchVars, tideProcVars,
                    airfareVars, niwaRunVars, diskVars, waipunaVars, tourismMainVars,
                    fuelTableVars, eventDateVars >>

\* df = process_rss_to_dataframe(rss_content, months_ahead=3)
ProcessRss ==
    /\ script = "fetch_eventfinda_data"
    /\ pc = "process"
    /\ IF event_feed.xml = "well-formed"
       THEN /\ events_df' = [columns |-> EventColumns(QualifyingItems(event_feed.items)),
                             rows |-> QualifyingItems(event_feed.items)]
            /\ pc' = "enhance"
            /\ UNCHANGED event_exit
       ELSE pc' = "done" /\ event_exit' = 1 /\ UNCHANGED events_df
    /\ UNCHANGED << script, event_feed,
                    maritimeVars, eventVars, tourismVars, niwaVars, fuelTypeVars,
                    quarterlyVars, fuelFixedVars, tideFetchVars, tideProcVars,
                    airfareVars, niwaRunVars, diskVars, waipunaVars, tourismMainVars,
                    fuelTableVars, eventDateVars >>

\* df = enhance_location_data(df): df['location_text'] raises KeyError when the
\* frame has no such column
EnhanceLocation ==
    /\ script = "fetch_eventfinda_data"
    /\ pc = "enhance"
    /\ IF "location_text" \in events_df.columns
       THEN /\ events_df' = [events_df EXCEPT !.columns = @ \cup {"region", "city"}]
            /\ pc' = "save"
            /\ UNCHANGED event_exit
       ELSE pc' = "done" /\ event_exit' = 1 /\ UNCHANGED events_df
    /\ UNCHANGED << script, event_feed,
                    maritimeVars, eventVars, tourismVars, niwaVars, fuelTypeVars,
                    quarterlyVars, fuelFixedVars, tideFetchVars, tideProcVars,
                    airfareVars, niwaRunVars, diskVars, waipunaVars, tourismMainVars,
                    fuelTableVars, eventDateVars >>

\* output_path = save_processed_data(df), the closing prints and return 0
SaveEvents ==
    /\ script = "fetch_eventfinda_data"
    /\ pc = "save"
    /\ event_exit' = IF event_feed.write = "ok" THEN 0 ELSE 1
    /\ pc' = "done"
    /\ UNCHANGED << script, event_feed, events_df,
                    maritimeVars, eventVars, tourismVars, niwaVars, fuelTypeVars,
                    quarterlyVars, fuelFixedVars, tideFetchVars, tideProcVars,
                    airfareVars, niwaRunVars, diskVars, waipunaVars, tourismMainVars,
                    fuelTableVars, eventDateVars >>

NextEventMain == FetchRss \/ ProcessRss \/ EnhanceLocation \/ SaveEvents

\* C19: main returns 1 if and only if fetching the feed, parsing the XML or
\* writing the CSV fails; for every feed fetched and parsed as well-formed RSS,
\* one with no qualifying item included, it returns 0 (the CSV being writable).
C19_OneIffFetchParseOrWriteFails ==
    (script = "fetch_eventfinda_data" /\ pc = "done") =>
        /\ event_exit \in {0, 1}
        /\ event_exit = 1 <=>
              \/ event_feed.fetch = "raises"
              \/ event_feed.fetch = "ok" /\ event_feed.xml = "malformed"
              \/ event_feed.fetch = "ok" /\ event_feed.xml = "well-formed"
                    /\ event_feed.write = "raises"


\* the period cell is a 'YYYYMmm' token of a month 1..12
IsMonthToken(cell) ==
    /\ cell.kind = "str" /\ Len(cell.s) = 7 /\ cell.s[5] = "M"
    /\ IsDigits(SubSeq(cell.s, 1, 4)) /\ IsDigits(SubSeq(cell.s, 6, 7))
    /\ DigitsToInt(SubSeq(cell.s, 6, 7)) \in 1..12

\* the period cell is a bare year of [1800, 2100]
IsYearToken(cell) ==
    /\ cell.kind = "str" /\ Len(cell.s) = 4 /\ IsDigits(cell.s)
    /\ DigitsToInt(cell.s) \in 1800..2100

\* what parse_period_to_date returns for a period cell is None or a concrete
\* date: the first of the month of a 'YYYYMmm' token, 1 January of a bare year
ResolvesOrNone(cell) ==
    /\ \/ parse_period_to_date(cell) = NoDate
       \/ /\ parse_period_to_date(cell) \in (1..9999) \X (1..12) \X {1}
          /\ IsMonthToken(cell) \/ IsYearToken(cell)
    /\ IsMonthToken(cell) =>
          parse_period_to_date(cell) = << DigitsToInt(SubSeq(cell.s, 1, 4)),
                                          DigitsToInt(SubSeq(cell.s, 6, 7)), 1 >>
    /\ IsYearToken(cell) => parse_period_to_date(cell) = << DigitsToInt(cell.s), 1, 1 >>

\* the data rows whose period resolves to a date
DatedRows ==
    SelectSeq(tourism_csv.data_rows, LAMBDA row : parse_period_to_date(row[1]) # NoDate)

\* C20: parse_period_to_date returns a concrete date (the first of the month
\* for a 'YYYYMmm' token, 1 January for a bare year in [1800, 2100]) or None;
\* process_guest_nights and process_occupancy_rates emit no record for a row
\* whose period resolves to None: every record carries the date of a dated row,
\* and the records are those of the dated rows alone.
C20_PeriodResolvesOrRowDropped ==
    (script = "process_tourism_data" /\ pc \in {"built", "done"}) =>
        /\ \A r \in 1..Len(tourism_csv.data_rows) :
              ResolvesOrNone(tourism_csv.data_rows[r][1])
        /\ \A i \in 1..Len(processed_data) :
              /\ processed_data[i].report_date # NoDate
              /\ \E r \in 1..Len(DatedRows) :
                    processed_data[i].report_date = parse_period_to_date(DatedRows[r][1])
        /\ Len(processed_data)
              = Len(AllRecords(tourism_csv.dataset, DatedRows, regions, metrics,
                               Len(DatedRows)))

\* a file whose first row has the period 1750 and numeric values and whose
\* second row is of 2020M01 has been processed: the records are of 2020-01-01
C20_Witness ==
    /\ script = "process_tourism_data" /\ pc = "built"
    /\ Len(tourism_csv.data_rows) = 2
    /\ tourism_csv.data_rows[1] = << Str(<<"1","7","5","0">>), Num(70), Num(80) >>
    /\ tourism_csv.data_rows[2][1] = Str(<<"2","0","2","0","M","0","1">>)
    /\ Len(processed_data) = 2
    /\ \A i \in 1..2 : processed_data[i].report_date = << 2020, 1, 1 >>


(***************************************************************************)
(* process_tourism_data.py: the rows of the pivoted table                  *)
(***************************************************************************)

\* C21: the pivoted table returned by process_guest_nights and
\* process_occupancy_rates has at most one row per (report_date, region): the
\* metric values of one region and one period are columns of the same row.
C21_OneRowPerDateAndRegion ==
    (script = "process_tourism_data" /\ pc = "done") =>
        \A a \in result_df : \A b \in result_df :
            (a.index.report_date = b.index.report_date
                /\ a.index.region = b.index.region) => a = b


(***************************************************************************)
(* simple_electricity_processing.py, process_and_load_electricity.py:      *)
(* the fuel table electricity_generation_by_fuel_final.csv                 *)
(***************************************************************************)
\* df[cols].sum(axis=1) of one row: missing values count as 0
SumCells(gwh, cols) ==
    SumOver([c \in DOMAIN gwh |-> IF gwh[c].kind = "num" THEN gwh[c].v ELSE 0],
            cols \cap DOMAIN gwh)

SampleGwh(hydro, geothermal, wind, solar, oil, coal, gas) ==
    [HYDRO_GWH |-> Num(hydro), GEOTHERMAL_GWH |-> Num(geothermal), WIND_GWH |-> Num(wind),
     SOLAR_PV_GWH |-> Num(solar), OIL_GWH |-> Num(oil), COAL_GWH |-> Num(coal),
     GAS_GWH |-> Num(gas)]

sample_data ==
    << [CALENDAR_YEAR |-> 2020, gwh |-> SampleGwh(24000, 7500, 2800, 150, 100, 2000, 4500)],
       [CALENDAR_YEAR |-> 2021, gwh |-> SampleGwh(25200, 7800, 3200, 200, 80, 1800, 4200)],
       [CALENDAR_YEAR |-> 2022, gwh |-> SampleGwh(24800, 8000, 3600, 280, 60, 1500, 3900)],
       [CALENDAR_YEAR |-> 2023, gwh |-> SampleGwh(26000, 8200, 4100, 400, 40, 1200, 3600)],
       [CALENDAR_YEAR |-> 2024, gwh |-> SampleGwh(26500, 8500, 4800, 550, 30, 900, 3200)] >>

\* renewable_cols of create_sample_fuel_data
sample_renewable_cols == {"HYDRO_GWH", "GEOTHERMAL_GWH", "WIND_GWH", "SOLAR_PV_GWH"}

\* df['BIOGAS_GWH'] = 100
SampleBiogas == 100

\* a row of the sample table: the totals and the percentages are calculated
\* first, the BIOGAS_GWH column is added after them
SampleFuelRow(rec) ==
    LET renewable == SumCells(rec.gwh, sample_renewable_cols)
        fossil == SumCells(rec.gwh, fossil_cols)
    IN  [CALENDAR_YEAR |-> rec.CALENDAR_YEAR,
         gwh |-> [c \in DOMAIN rec.gwh \cup {"BIOGAS_GWH"} |->
                     IF c = "BIOGAS_GWH" THEN Num(SampleBiogas) ELSE rec.gwh[c]],
         RENEWABLE_GWH |-> renewable,
         FOSSIL_FUEL_GWH |-> fossil,
         TOTAL_GENERATION_GWH |-> Num(renewable + fossil),
         RENEWABLE_PERCENTAGE |-> Percentage(renewable, renewable + fossil),
         FOSSIL_FUEL_PERCENTAGE |-> Percentage(fossil, renewable + fossil)]

\* the row survives dropna on the first column and the numeric-year filter
NumericYear(row) ==
    row.CALENDAR_YEAR.kind # "nan" /\ to_numeric_coerce(row.CALENDAR_YEAR).kind = "num"

\* np.where(TOTAL_GENERATION_GWH > 0, (part / TOTAL_GENERATION_GWH * 100).round(2), 0)
\* with the total the sheet's own column
SheetPercentage(part, total) ==
    IF total.kind = "num" /\ total.v > 0 THEN Percentage(part, total.v) ELSE Pct(0)

\* a row of df_clean: the fuel columns and the sheet's total coerced to
\* numbers (no fillna), the two sums, the percentages against the sheet's total
LoadedFuelRow(row) ==
    LET gwh == [c \in {FuelColumns[k] : k \in 1..Len(FuelColumns)} |->
                   to_numeric_coerce(
                      row.fuels[CHOOSE k \in 1..Len(FuelColumns) : FuelColumns[k] = c])]
        total == to_numeric_coerce(row.TOTAL_GENERATION_GWH)
    IN  [CALENDAR_YEAR |-> to_numeric_coerce(row.CALENDAR_YEAR).v,
         gwh |-> gwh,
         RENEWABLE_GWH |-> SumCells(gwh, renewable_cols),
         FOSSIL_FUEL_GWH |-> SumCells(gwh, fossil_cols),
         TOTAL_GENERATION_GWH |-> total,
         RENEWABLE_PERCENTAGE |-> SheetPercentage(SumCells(gwh, renewable_cols), total),
         FOSSIL_FUEL_PERCENTAGE |-> SheetPercentage(SumCells(gwh, fossil_cols), total)]

\* columns df_clean is given names for
expected_cols == 12

\* year cells of the sheet
LoadedYearCells == {NaN, Str(<<"N","o","t","e","s">>), Str(<<"2","0","1","0">>), Num(2020)}

\* the eight fuel cells of a row
LoadedFuelCells ==
    { << Num(30), Num(10), NaN, Num(0), Str(<<"x">>), Num(5), Num(0), Num(15) >>,
      << Num(0), Num(0), Num(0), Num(0), Num(0), Num(0), Num(0), Num(0) >>,
      << Num(1), Num(0), Num(0), Num(0), Num(1), Num(0), Num(0), Num(1) >> }

\* the sheet's own total: missing, zero, the sum of the first fuel row, a
\* total that also counts cogeneration
LoadedTotalCells == {NaN, Num(0), Num(60), Num(100)}

LoadedSheetRows ==
    [CALENDAR_YEAR : LoadedYearCells, fuels : LoadedFuelCells,
     TOTAL_GENERATION_GWH : LoadedTotalCells]

MaxLoadedRows == 2

\* the sheets of n rows: with the twelve expected columns or with eleven
FuelSheets(n) == [ncols : {11, 12}, rows : [1..n -> LoadedSheetRows]]

InitFuelTables ==
    /\ script \in {"simple_electricity_processing", "process_and_load_electricity"}
    /\ pc = "start"
    /\ IdleMaritime /\ IdleEvents /\ IdleTourism /\ IdleNiwa /\ IdleFuelType
    /\ IdleQuarterly /\ IdleFuelFixed /\ IdleTideFetch /\ IdleTideProc
    /\ IdleAirfares /\ IdleNiwaRuns /\ IdleDisk /\ IdleWaipuna /\ IdleTourismMain
    /\ IdleEventMain /\ IdleEventDates
    /\ IF script = "simple_electricity_processing" THEN fuel_sheet = [ncols |-> 0, rows |-> <<>>]
       ELSE \E n \in 0..MaxLoadedRows : fuel_sheet \in FuelSheets(n)
    /\ fuel_table = <<>>
    /\ fuel_table_error = "none"

\* create_sample_fuel_data: the whole function, the file written included
CreateSampleFuelData ==
    /\ script = "simple_electricity_processing"
    /\ pc = "start"
    /\ fuel_table' = [i \in 1..Len(sample_data) |-> SampleFuelRow(sample_data[i])]
    /\ pc' = "done"
    /\ UNCHANGED << script, fuel_sheet, fuel_table_error,
                    maritimeVars, eventVars, tourismVars, niwaVars, fuelTypeVars,
                    quarterlyVars, fuelFixedVars, tideFetchVars, tideProcVars,
                    airfareVars, niwaRunVars, diskVars, waipunaVars, tourismMainVars,
                    eventMainVars, eventDateVars >>

\* process_fuel_type_data of process_and_load_electricity.py: the whole
\* function; df_clean.columns = expected_cols raises ValueError on a sheet with
\* fewer columns
ProcessFuelTypeData ==
    /\ script = "process_and_load_electricity"
    /\ pc = "start"
    /\ IF fuel_sheet.ncols < expected_cols
       THEN /\ fuel_table_error' = "ValueError"
            /\ UNCHANGED fuel_table
       ELSE /\ fuel_table' =
                  LET kept == SelectSeq(fuel_sheet.rows, NumericYear)
                  IN  [i \in 1..Len(kept) |-> LoadedFuelRow(kept[i])]
            /\ UNCHANGED fuel_table_error
    /\ pc' = "done"
    /\ UNCHANGED << script, fuel_sheet,
                    maritimeVars, eventVars, tourismVars, niwaVars, fuelTypeVars,
                    quarterlyVars, fuelFixedVars, tideFetchVars, tideProcVars,
                    airfareVars, niwaRunVars, diskVars, waipunaVars, tourismMainVars,
                    eventMainVars, eventDateVars >>

NextFuelTables == CreateSampleFuelData \/ ProcessFuelTypeData \/ ProcessFuelDataFixed

\* the sums of the fuel columns an output row carries
SumsOfOwnColumns(row) ==
    /\ row.RENEWABLE_GWH = SumCells(row.gwh, renewable_cols)
    /\ row.FOSSIL_FUEL_GWH = SumCells(row.gwh, fossil_cols)

\* C22: in every fuel table the scripts write, RENEWABLE_GWH is the sum of the
\* hydro, geothermal, biogas, wind and solar columns and FOSSIL_FUEL_GWH the
\* sum of the oil, coal and gas columns of the same output row.
C22_TotalsAreSumsOfTheRow ==
    /\ (script \in {"simple_electricity_processing", "process_and_load_electricity"}
           /\ pc = "done")
          => \A i \in 1..Len(fuel_table) : SumsOfOwnColumns(fuel_table[i])
    /\ (script = "process_fuel_data_fixed" /\ pc = "done")
          => \A i \in 1..Len(fixed_final) :
                /\ fixed_final[i].RENEWABLE_GWH
                      = SumOver(fixed_final[i].gwh,
                                renewable_cols \cap DOMAIN fixed_final[i].gwh)
                /\ fixed_final[i].FOSSIL_FUEL_GWH
                      = SumOver(fixed_final[i].gwh,
                                fossil_cols \cap DOMAIN fixed_final[i].gwh)

\* the two percentages of a row whose totals are renewable and fossil
PercentagesOfOwnTotals(row) ==
    row.RENEWABLE_GWH + row.FOSSIL_FUEL_GWH # 0 =>
        /\ row.RENEWABLE_PERCENTAGE
              = Percentage(row.RENEWABLE_GWH, row.RENEWABLE_GWH + row.FOSSIL_FUEL_GWH)
        /\ row.FOSSIL_FUEL_PERCENTAGE
              = Percentage(row.FOSSIL_FUEL_GWH, row.RENEWABLE_GWH + row.FOSSIL_FUEL_GWH)
        /\ row.RENEWABLE_PERCENTAGE.hundredths + row.FOSSIL_FUEL_PERCENTAGE.hundredths
              \in 9999..10001

\* C23: in every fuel output row of process_fuel_type_data of
\* process_and_load_electricity and of process_fuel_data_fixed, each percentage
\* is 100 * part / (RENEWABLE_GWH + FOSSIL_FUEL_GWH) whenever that denominator
\* is not zero, and the two percentages sum to 100 up to rounding.
C23_PercentagesOfRenewablePlusFossil ==
    /\ (script = "process_and_load_electricity" /\ pc = "done")
          => \A i \in 1..Len(fuel_table) : PercentagesOfOwnTotals(fuel_table[i])
    /\ (script = "process_fuel_data_fixed" /\ pc = "done")
          => \A i \in 1..Len(fixed_final) : PercentagesOfOwnTotals(fixed_final[i])


(***************************************************************************)
(* fetch_tide_data.py: the pause between requests                          *)
(***************************************************************************)

\* C24: the requests are issued one after another and every request that is
\* followed by another one is followed by the 0.5 s pause first, whether it
\* succeeded or failed: a pass through the loop body that is not the last has
\* slept once per request made so far.
C24_PauseAfterEveryRequest ==
    script = "fetch_tide_data" =>
        /\ Len(tide_requests) < Len(cities) * Len(years)
              => tide_sleeps = Len(tide_requests)
        /\ Len(tide_requests) = Len(cities) * Len(years)
              => tide_sleeps >= Len(tide_requests) - 1


(***************************************************************************)
(* fix_fuel_data_processing.py: the fuel a row label is mapped to          *)
(***************************************************************************)
\* the fuel's name is a substring of the row label, whatever the case
NamedInLabel(k, label) == Contains(Lower(PyStr(label)), Lower(fuel_types[k]))

\* the entries of fuel_data_rows made for the sheet row of 0-based index idx
EntriesOfRow(idx) == {e \in 1..Len(fuel_data_rows) : fuel_data_rows[e].row_idx = idx}

\* C25: each row below the header with a label is mapped to the first fuel, in
\* the order Hydro, Geothermal, Biogas, Wind, Solar, Oil, Coal, Gas, whose name
\* is a case-insensitive substring of the label, and to no fuel when none
\* matches; a row labelled 'Biogas' is mapped to Biogas, never to Gas; no row
\* is mapped to two fuels, and no other row is mapped.
C25_FirstFuelInFixedOrder ==
    (script = "fix_fuel_data_processing" /\ pc \in {"rows", "long", "done"}
        /\ header_row_idx # NoneIdx) =>
        /\ fuel_types = << <<"H","y","d","r","o">>, <<"G","e","o","t","h","e","r","m","a","l">>,
                           <<"B","i","o","g","a","s">>, <<"W","i","n","d">>,
                           <<"S","o","l","a","r">>, <<"O","i","l">>, <<"C","o","a","l">>,
                           <<"G","a","s">> >>
        /\ \A n \in 1..Len(fuel_df) :
              LET label == fuel_df[n][1]
                  named == {k \in 1..Len(fuel_types) : NamedInLabel(k, label)}
              IN  IF n - 1 > header_row_idx /\ label.kind # "nan" /\ named # {}
                  THEN /\ Cardinality(EntriesOfRow(n - 1)) = 1
                       /\ \A e \in EntriesOfRow(n - 1) :
                             /\ NamedInLabel(fuel_data_rows[e].fuel_type, label)
                             /\ \A j \in 1..(fuel_data_rows[e].fuel_type - 1) :
                                   ~NamedInLabel(j, label)
                             /\ label = Str(<<"B","i","o","g","a","s">>)
                                   => fuel_types[fuel_data_rows[e].fuel_type]
                                         = <<"B","i","o","g","a","s">>
                  ELSE EntriesOfRow(n - 1) = {}
        /\ \A e \in 1..Len(fuel_data_rows) :
              fuel_data_rows[e].row_idx \in (header_row_idx + 1)..(Len(fuel_df) - 1)

\* below the header row, the row 'Biogas' has been mapped to Biogas and the row
\* 'GAS/COAL' to Coal
C25_Witness ==
    /\ script = "fix_fuel_data_processing" /\ pc = "rows"
    /\ header_row_idx = 0 /\ Len(fuel_df) = 3
    /\ fuel_df[2][1] = Str(<<"B","i","o","g","a","s">>)
    /\ fuel_df[3][1] = Str(<<"G","A","S","/","C","O","A","L">>)
    /\ Len(fuel_data_rows) = 2
    /\ fuel_types[fuel_data_rows[1].fuel_type] = <<"B","i","o","g","a","s">>
    /\ fuel_types[fuel_data_rows[2].fuel_type] = <<"C","o","a","l">>


(***************************************************************************)
(* process_and_load_electricity.py: the quarter a column's value is given  *)
(***************************************************************************)
\* the cells of the generation row after its label
GenerationColumns == Tail(quarterly_sheet[GenerationRow(quarterly_sheet) + 1])

\* C26: the value found in the k-th quarter column of the generation row
\* (k = 0 for the first column after the label) is emitted with QUARTER_YEAR
\* 1974 + k div 4 and QUARTER_NUMBER (k mod 4) + 1, the quarter CALENDAR_QUARTER
\* is the first day of, also when some quarter cells of the row are blank.
C26_ColumnGivesQuarter ==
    (script = "process_and_load_electricity" /\ pc = "records") =>
        \A k \in 0..(Len(GenerationColumns) - 1) :
            GenerationColumns[k + 1].kind = "num" =>
                \E i \in 1..Len(df_quarterly) :
                    df_quarterly[i] = QuarterRec(1974 + (k \div 4), (k % 4) + 1,
                                                 GenerationColumns[k + 1].v)


(***************************************************************************)
(* process_maritime_incidents.py: the order of the severity tests          *)
(***************************************************************************)
C27MajorKeywords ==
    {<<"c","o","l","l","i","s","i","o","n">>, <<"g","r","o","u","n","d","i","n","g">>,
     <<"f","i","r","e">>, <<"e","x","p","l","o","s","i","o","n">>,
     <<"c","a","p","s","i","z","e">>, <<"f","l","o","o","d","i","n","g">>,
     <<"s","t","r","u","c","t","u","r","a","l">>}

C27ModerateKeywords ==
    {<<"c","o","n","t","a","c","t">>, <<"n","e","a","r"," ","m","i","s","s">>,
     <<"m","e","c","h","a","n","i","c","a","l">>, <<"p","r","o","p","u","l","s","i","o","n">>,
     <<"e","q","u","i","p","m","e","n","t">>}

\* some keyword of the set is in the lower-cased text of the cell
HasKeyword(keywords, cell) == \E kw \in keywords : Contains(Lower(PyStr(cell)), kw)

\* the severity the ordered tests give, the critical keywords tested against
\* what_happened and against the description
C27Severity(tests_critical_desc) ==
    IF HasKeyword(C8Keywords, incident.what) THEN "Critical"
    ELSE IF HasKeyword(tests_critical_desc, incident.desc) THEN "Critical"
    ELSE IF incident.injured.kind = "num" /\ incident.injured.v > 0 THEN "Major"
    ELSE IF HasKeyword(C27MajorKeywords, incident.what) THEN "Major"
    ELSE IF HasKeyword(C27ModerateKeywords, incident.what) THEN "Moderate"
    ELSE "Minor"

\* C27: categorize_incident_severity returns one of Critical, Major, Moderate,
\* Minor for every record, a missing injured count included, chosen by the
\* first test that succeeds: a critical keyword in what_happened or in the
\* description; injured count > 0; a major keyword in what_happened; a
\* moderate keyword in what_happened; otherwise Minor.
C27_FirstSucceedingTest ==
    (script = "process_maritime_incidents" /\ pc = "done") =>
        /\ incident_severity \in {"Critical", "Major", "Moderate", "Minor"}
        /\ incident_severity = C27Severity(C8Keywords)

\* the same order with the description tested for fatal, death and foundered
\* only, as the second keyword list of the function has it
C27_WithDescriptionList ==
    (script = "process_maritime_incidents" /\ pc = "done") =>
        /\ incident_severity \in {"Critical", "Major", "Moderate", "Minor"}
        /\ incident_severity
              = C27Severity(C8Keywords \ {<<"s","i","n","k","i","n","g">>})


(***************************************************************************)
(* process_tourism_data.py: the column a record's value is read from       *)
(***************************************************************************)
\* record rec carries the labels of the k-th emitted pair and the value of the
\* cell that data row r holds in the column whose header cells gave that pair
ValueOfOwnColumn(rec, r, k) ==
    /\ rec.report_date = parse_period_to_date(tourism_csv.data_rows[r][1])
    /\ rec.region = regions[k]
    /\ rec.metric_type = metrics[k]
    /\ to_numeric_coerce(tourism_csv.data_rows[r][EmittingColumns[k]]) = Num(rec.value)

\* C28: in process_guest_nights and process_occupancy_rates, the value of a
\* record labelled (region, metric) is read from the data column whose two
\* header cells produced that label, under every header layout.
C28_ValueFromLabelledColumn ==
    (script = "process_tourism_data" /\ pc \in {"built", "done"}) =>
        \A i \in 1..Len(processed_data) :
            \E r \in 1..Len(tourism_csv.data_rows) :
                \E k \in 1..Len(EmittingColumns) :
                    ValueOfOwnColumn(processed_data[i], r, k)


(***************************************************************************)
(* process_tide_data.py: the records of a data line                        *)
(***************************************************************************)
\* the fields of a data line
FieldsOf(line) == Split(Strip(line), ",")

\* a whole number in a field
WholeNumber(field) == ~IntRaises(Str(field))

\* the line carries a date: four fields at least, day, month and year whole
\* numbers of a day the calendar has
LineHasDate(line) ==
    /\ Strip(line) # << >>
    /\ Len(FieldsOf(line)) >= 4
    /\ WholeNumber(FieldsOf(line)[1]) /\ WholeNumber(FieldsOf(line)[3])
    /\ WholeNumber(FieldsOf(line)[4])
    /\ ValidDate(IntOf(Str(FieldsOf(line)[4])), IntOf(Str(FieldsOf(line)[3])),
                 IntOf(Str(FieldsOf(line)[1])))

\* the time text is HH:MM of an hour 0..23 and a minute 0..59
TimeParses(text) ==
    /\ Len(Split(text, ":")) = 2
    /\ WholeNumber(Split(text, ":")[1]) /\ WholeNumber(Split(text, ":")[2])
    /\ IntOf(Str(Split(text, ":")[1])) \in 0..23
    /\ IntOf(Str(Split(text, ":")[2])) \in 0..59

\* slot q (1..4) of the line: its Time and Height fields are there, not empty,
\* and parse
SlotUsable(line, q) ==
    /\ Len(FieldsOf(line)) >= 4 + 2 * q
    /\ Strip(FieldsOf(line)[3 + 2 * q]) # << >>
    /\ Strip(FieldsOf(line)[4 + 2 * q]) # << >>
    /\ TimeParses(Strip(FieldsOf(line)[3 + 2 * q]))
    /\ HeightOk(Strip(FieldsOf(line)[4 + 2 * q]))

\* the slots of a line that give a record, in ascending order
UsableSlots(line) ==
    IF LineHasDate(line) THEN Ascending({q \in 1..4 : SlotUsable(line, q)}) ELSE << >>

\* << line number, slot >> of every record due after the first n data lines
RECURSIVE DueRecords(_, _)
DueRecords(lines, n) ==
    IF n = 0 THEN << >>
    ELSE DueRecords(lines, n - 1)
         \o [j \in 1..Len(UsableSlots(lines[n])) |-> << n, UsableSlots(lines[n])[j] >>]

\* C29: parse_tide_csv emits at most 4 records per data line, one per
\* Time/Height slot whose time and height are both non-empty and parse, with
\* tide_sequence the 1-based position of the slot; a malformed or empty slot is
\* skipped without the other slots of the line; a line with an invalid date or
\* fewer than 4 fields emits nothing, and the lines after it are processed.
C29_OneRecordPerUsableSlot ==
    script = "process_tide_data" =>
        LET due == DueRecords(tide_file.lines, tide_line_num) IN
        /\ Len(tide_data) = Len(due)
        /\ Len(tide_data) <= 4 * tide_line_num
        /\ \A i \in 1..Len(due) :
              LET fields == FieldsOf(tide_file.lines[due[i][1]]) IN
              /\ tide_data[i].tide_sequence = due[i][2]
              /\ tide_data[i].tide_time = Strip(fields[3 + 2 * due[i][2]])
              /\ tide_data[i].tide_height_m = HeightOf(Strip(fields[4 + 2 * due[i][2]]))
              /\ tide_data[i].day = IntOf(Str(fields[1]))
              /\ tide_data[i].month = IntOf(Str(fields[3]))
              /\ tide_data[i].year = IntOf(Str(fields[4]))

\* after a line of 30 February and a line whose first slot has the hour 25,
\* whose second has the height 'x' and whose third is empty, the only record is
\* the one of the fourth slot
C29_Witness ==
    /\ script = "process_tide_data" /\ pc = "lines"
    /\ tide_line_num = 2 /\ Len(tide_file.lines) = 2
    /\ Len(tide_file.lines[1]) >= 7 /\ Len(tide_file.lines[2]) >= 19
    /\ SubSeq(tide_file.lines[1], 1, 7) = <<"3","0",",","F","r",",","2">>
    /\ SubSeq(tide_file.lines[2], 1, 19)
          = <<"1",",","M","o",",","1",",","2","0","2","4",",","2","5",":","0","0",",","0">>
    /\ Len(tide_data) = 1
    /\ tide_data[1].tide_sequence = 4
    /\ tide_data[1].tide_time = <<"2","1",":","4","0">>
    /\ tide_data[1].tide_height_m = << 2, 0 >>


(***************************************************************************)
(* fetch_eventfinda_data.py: parse_event_dates                             *)
(***************************************************************************)
\* A date text is modelled by the dates it mentions, in order, each with or
\* without a day name before it ("Sunday, 3 August 2025" / "3 August 2025"),
\* and by its wording: the empty text, a text with 'every' or ' - ' in it, or
\* any other text. A month of 0 is a word that is no month name.

\* re.findall(pattern, date_str): the first pattern finds the dates written
\* with a day name, the second pattern every date
FindAll(pattern, text) ==
    IF pattern = 1 THEN SelectSeq(text.mentions, LAMBDA m : m.day_name)
    ELSE text.mentions

\* pd.to_datetime(f"{day} {month} {year}", format="%d %B %Y") raises
ToDatetimeRaises(m) == ~ValidDate(m.year, m.month, m.day)

DateOfMention(m) == << m.year, m.month, m.day >>

\* the body of the loop for one pattern: without matches nothing changes; an
\* exception leaves what was assigned before it and goes on with the next
\* pattern; otherwise the loop is left
TryPattern(acc, matches) ==
    IF matches = << >> THEN acc
    ELSE IF ToDatetimeRaises(matches[1]) THEN acc
    ELSE IF Len(matches) > 1
    THEN IF ToDatetimeRaises(matches[Len(matches)])
         THEN [acc EXCEPT !.start_date = DateOfMention(matches[1])]
         ELSE [acc EXCEPT !.start_date = DateOfMention(matches[1]),
                          !.end_date = DateOfMention(matches[Len(matches)]),
                          !.found = TRUE]
    ELSE [acc EXCEPT !.start_date = DateOfMention(matches[1]),
                     !.end_date = DateOfMention(matches[1]),
                     !.found = TRUE]

parse_event_dates(text) ==
    IF text.wording = "empty"
    THEN [start_date |-> NoDate, end_date |-> NoDate, is_recurring |-> FALSE]
    ELSE LET first == TryPattern([start_date |-> NoDate, end_date |-> NoDate,
                                  found |-> FALSE], FindAll(1, text))
             last == IF first.found THEN first ELSE TryPattern(first, FindAll(2, text))
         IN  [start_date |-> last.start_date, end_date |-> last.end_date,
              is_recurring |-> text.wording = "recurring"]

\* the dates a text mentions: two days of August 2025, 31 September 2025, and
\* a day of a month 'Augst'
DateMentions ==
    [day_name : BOOLEAN,
     day : {3}, month : {8}, year : {2025}]
    \cup [day_name : BOOLEAN, day : {10}, month : {8}, year : {2025}]
    \cup [day_name : BOOLEAN, day : {31}, month : {9}, year : {2025}]
    \cup [day_name : {FALSE}, day : {5}, month : {0}, year : {2025}]

MaxDates == 2

\* the date texts that mention n dates
DateTexts(n) ==
    IF n = 0 THEN {[mentions |-> << >>, wording |-> w] : w \in {"empty", "plain", "recurring"}}
    ELSE [mentions : [1..n -> DateMentions], wording : {"plain", "recurring"}]

InitEventDates ==
    /\ script = "fetch_eventfinda_data"
    /\ pc = "date_info"
    /\ IdleMaritime /\ IdleEvents /\ IdleTourism /\ IdleNiwa /\ IdleFuelType
    /\ IdleQuarterly /\ IdleFuelFixed /\ IdleTideFetch /\ IdleTideProc
    /\ IdleAirfares /\ IdleNiwaRuns /\ IdleDisk /\ IdleWaipuna /\ IdleTourismMain
    /\ IdleEventMain /\ IdleFuelTables
    /\ \E n \in 0..MaxDates : date_str \in DateTexts(n)
    /\ event_dates = Unset

\* date_data = parse_event_dates(desc_data['date_info'])
ParseEventDates ==
    /\ script = "fetch_eventfinda_data"
    /\ pc = "date_info"
    /\ event_dates' = parse_event_dates(date_str)
    /\ pc' = "date_data"
    /\ UNCHANGED << script, date_str,
                    maritimeVars, eventVars, tourismVars, niwaVars, fuelTypeVars,
                    quarterlyVars, fuelFixedVars, tideFetchVars, tideProcVars,
                    airfareVars, niwaRunVars, diskVars, waipunaVars, tourismMainVars,
                    eventMainVars, fuelTableVars >>

NextEventDates == ParseEventDates

\* C30: start_date and end_date are both null or both non-null; when the text
\* contains several dates, start_date is the first and end_date the last date
\* of the text, whichever of the two formats each is written in; when it
\* contains one date, end_date = start_date.
C30_FirstAndLastDate ==
    (script = "fetch_eventfinda_data" /\ pc = "date_data") =>
        /\ (event_dates.start_date = NoDate) <=> (event_dates.end_date = NoDate)
        /\ (\A i \in 1..Len(date_str.mentions) : ~ToDatetimeRaises(date_str.mentions[i])) =>
              /\ Len(date_str.mentions) >= 2 =>
                    /\ event_dates.start_date = DateOfMention(date_str.mentions[1])
                    /\ event_dates.end_date
                          = DateOfMention(date_str.mentions[Len(date_str.mentions)])
              /\ Len(date_str.mentions) = 1 =>
                    /\ event_dates.start_date = DateOfMention(date_str.mentions[1])
                    /\ event_dates.end_date = event_dates.start_date

\* the first half of the statement alone
C30_BothOrNeither ==
    (script = "fetch_eventfinda_data" /\ pc = "date_data") =>
        ((event_dates.start_date = NoDate) <=> (event_dates.end_date = NoDate))

\* the second half for texts of valid dates
C30_FirstLastOfValidDates ==
    (script = "fetch_eventfinda_data" /\ pc = "date_data"
        /\ Len(date_str.mentions) >= 2
        /\ \A i \in 1..Len(date_str.mentions) : ~ToDatetimeRaises(date_str.mentions[i])) =>
        /\ event_dates.start_date = DateOfMention(date_str.mentions[1])
        /\ event_dates.end_date = DateOfMention(date_str.mentions[Len(date_str.mentions)])


(***************************************************************************)
(* Specifications                                                          *)
(***************************************************************************)
SpecMaritime == InitMaritime /\ [][CategorizeIncident]_vars

SpecEvents == InitEvents /\ [][CategorizeEvent]_vars

SpecTourism == InitTourism /\ [][NextTourism]_vars

SpecNiwa == InitNiwa /\ [][NextNiwa]_vars

SpecFuelType == InitFuelType /\ [][NextFuelType]_vars

SpecQuarterly == InitQuarterly /\ [][NextQuarterly]_vars

SpecFuelFixed == InitFuelFixed /\ [][ProcessFuelDataFixed]_vars

SpecTideFetch == InitTideFetch /\ [][NextTideFetch]_vars

SpecTourismAnnual == InitTourismAnnual /\ [][NextTourismAnnual]_vars

SpecTideProc == InitTideProc /\ [][NextTideProc]_vars

SpecAirfares == InitAirfares /\ [][NextAirfares]_vars

SpecNiwaRuns == InitNiwaRuns /\ [][NextNiwaRuns]_vars

SpecDisk == InitDisk /\ [][RunScript]_vars

SpecWaipuna == InitWaipuna /\ [][NextWaipuna]_vars

SpecTourismMain == InitTourismMain /\ [][NextTourismMain]_vars

SpecEventMain == InitEventMain /\ [][NextEventMain]_vars

SpecFuelTables == (InitFuelTables \/ InitFuelFixed) /\ [][NextFuelTables]_vars

SpecEventDates == InitEventDates /\ [][NextEventDates]_vars

=============================================================================
